---- MODULE Spec2Model ----
(***************************************************************************)
(* SentinelAI audit engine: the risk aggregator, the bias analyzer, the    *)
(* drift analyzer, the explainability analyzer, the recommendation         *)
(* generator, the dataset generators and run_audit of backend/app, and the *)
(* endpoints of main.py around the audit_results table.                    *)
(*                                                                         *)
(* Python floats are modelled as exact rationals [n, d] in lowest terms    *)
(* (d > 0); round() is Python's round-half-to-even on the exact value.     *)
(* The sum of the three drift parts, whose bands are decided on the        *)
(* unrounded float, is modelled with the IEEE-754 doubles themselves       *)
(* (records [t, j, u]).                                                    *)
(* A dataframe is modelled by the statistics the analyzers read from it:   *)
(* per-group record counts and approval counts, mean incomes, accuracy,    *)
(* its columns.                                                            *)
(***************************************************************************)
EXTENDS Integers, Sequences, FiniteSets, TLC

VARIABLES
    bias_score,            \* calculate_ai_risk_score: parameter
    drift_score,           \* calculate_ai_risk_score: parameter
    explainability_score,  \* calculate_ai_risk_score: parameter
    ai_risk,               \* calculate_ai_risk_score: returned dict, or None
    df,                    \* the dataframe handed to the analyzers
    protected_col,         \* calculate_disparate_impact: parameter
    di_result,             \* calculate_disparate_impact: returned dict, or None
    age_result,            \* calculate_age_group_bias: returned dict, or None
    bias_result,           \* calculate_bias_risk_score: returned dict, or None
    bias_locals,           \* calculate_bias_risk_score: gender_risk, age_risk, proxy_risk
    baseline_df,           \* get_baseline_dataset(): the clean dataset
    drift_result,          \* calculate_drift_risk_score: returned dict, or None
    drift_locals,          \* calculate_drift_risk_score: the three component scores
    explainability_result, \* generate_all_recommendations: parameter
    ai_risk_score,         \* generate_all_recommendations: parameter
    recommendations,       \* generate_all_recommendations: the list it builds
    pc,                    \* generate_all_recommendations: "call" before, "return" after
    given_df,              \* the dataframe as it was before the analyzers were called
    calls,                 \* what each analyzer returned (or raised), call after call
    audit_result,          \* run_audit, from its line 98 on: the result or the error
    rng,                   \* numpy's process-global RandomState: seed and draws since
    audits,                \* the run_audit invocations: position and locals of each
    clock,                 \* datetime.utcnow(), in seconds
    age_records,           \* records per age, before pd.cut buckets them
    store,                 \* the audit_results table: the set of its rows
    response,              \* the answer of the last request handled
    returned               \* per audit id, what the request that stored it answered

riskVars == <<bias_score, drift_score, explainability_score, ai_risk>>
diVars == <<protected_col, di_result, age_result>>
biasVars == <<bias_result, bias_locals>>
driftVars == <<baseline_df, drift_result, drift_locals>>
recVars == <<explainability_result, ai_risk_score, recommendations, pc>>

analyzerVars == <<given_df, calls, audit_result>>
runVars == <<audits, clock>>
storeVars == <<store, response, returned>>
engineVars == <<analyzerVars, rng, runVars, age_records, storeVars>>

vars == <<riskVars, df, diVars, biasVars, driftVars, recVars, engineVars>>

None == [none |-> TRUE]

-----------------------------------------------------------------------------
(* Float arithmetic, as exact rationals.                                   *)

Abs(x) == IF x < 0 THEN -x ELSE x

RECURSIVE Gcd(_, _)
Gcd(a, b) == IF b = 0 THEN a ELSE Gcd(b, a % b)

\* The float n/d (d > 0), in lowest terms.
Q(n, d) == LET g == Gcd(Abs(n), d) IN [n |-> n \div g, d |-> d \div g]

QI(i) == [n |-> i, d |-> 1]

QAdd(a, b) == Q(a.n * b.d + b.n * a.d, a.d * b.d)

QSub(a, b) == Q(a.n * b.d - b.n * a.d, a.d * b.d)

QMul(a, b) == Q(a.n * b.n, a.d * b.d)

\* a / b for b # 0
QDiv(a, b) == IF b.n > 0 THEN Q(a.n * b.d, a.d * b.n)
                         ELSE Q(-(a.n * b.d), -(a.d * b.n))

QLt(a, b) == a.n * b.d < b.n * a.d

QLe(a, b) == a.n * b.d <= b.n * a.d

QAbs(a) == [n |-> Abs(a.n), d |-> a.d]

\* Python min(a, b) and max(a, b): the first argument wins a tie.
min(a, b) == IF QLt(b, a) THEN b ELSE a

max(a, b) == IF QLt(a, b) THEN b ELSE a

Pow10(k) == 10 ^ k

\* a / b (b > 0) rounded to the nearest integer, ties to the even one.
RoundHalfEven(a, b) ==
    LET q == a \div b
        r == a % b
    IN  IF 2 * r < b THEN q
        ELSE IF 2 * r > b THEN q + 1
        ELSE IF q % 2 = 0 THEN q ELSE q + 1

\* Python round(x, ndigits)
round(x, ndigits) == Q(RoundHalfEven(x.n * Pow10(ndigits), x.d), Pow10(ndigits))

-----------------------------------------------------------------------------
(* config.py                                                               *)

RISK_THRESHOLDS == [PASS |-> <<QI(0), QI(40)>>,
                    WARNING |-> <<QI(40), QI(70)>>,
                    FAIL |-> <<QI(70), QI(100)>>]

RISK_WEIGHTS == [bias |-> Q(40, 100), drift |-> Q(35, 100), explainability |-> Q(25, 100)]

DI_THRESHOLD == Q(8, 10)

-----------------------------------------------------------------------------
(* audit_engine.py: calculate_ai_risk_score                                *)

\* Mutant of WeightedRisk: the clamp min(100, max(0, .)) is dropped.
WeightedRisk_NoClamp(b, d, e) ==
    QAdd(QAdd(QMul(RISK_WEIGHTS.bias, b), QMul(RISK_WEIGHTS.drift, d)),
         QMul(RISK_WEIGHTS.explainability, QSub(QI(100), e)))

\* The local ai_risk_score after the clamp of line 42, before rounding.
WeightedRisk(b, d, e) ==
    LET explainability_risk == QSub(QI(100), e)
        weighted == QAdd(QAdd(QMul(RISK_WEIGHTS.bias, b),
                              QMul(RISK_WEIGHTS.drift, d)),
                         QMul(RISK_WEIGHTS.explainability, explainability_risk))
    IN  min(QI(100), max(QI(0), weighted))

RiskStatus(score) ==
    IF QLe(score, RISK_THRESHOLDS.PASS[2]) THEN "PASS"
    ELSE IF QLe(score, RISK_THRESHOLDS.WARNING[2]) THEN "WARNING"
    ELSE "FAIL"

calculate_ai_risk_score(b, d, e) ==
    LET explainability_risk == QSub(QI(100), e)
        clamped == WeightedRisk(b, d, e)
    IN  [score |-> round(clamped, 1),
         status |-> RiskStatus(clamped),
         components |->
            [bias_contribution |-> round(QMul(RISK_WEIGHTS.bias, b), 1),
             drift_contribution |-> round(QMul(RISK_WEIGHTS.drift, d), 1),
             explainability_contribution |->
                round(QMul(RISK_WEIGHTS.explainability, explainability_risk), 1)]]

-----------------------------------------------------------------------------
(* The dataframe, as the statistics the analyzers read from it.            *)
(*   df.groups[col][g]  = [n, a]: n records with df[col] == g, a of them   *)
(*                        with prediction == 1                             *)
(*   df.age_group[b]    = [n, a]: the same per age bucket of pd.cut        *)
(*   df.income          = mean income of the approved / denied records of  *)
(*                        each gender, NaN when there is no such record    *)
(*   df.correct         = number of records with prediction ==             *)
(*                        actual_outcome                                   *)
(*   df.features[f]     = mean and std of the numeric column f, and what   *)
(*                        scipy's ks_2samp answers for it against the      *)
(*                        baseline                                         *)
(*   df.columns         = the column names of the dataframe                *)
(*   df.near_boundary   = number of records whose approval_score lies in   *)
(*                        (0.4, 0.6)                                       *)
(* Every record has a gender, so len(df) and df["prediction"].mean() are   *)
(* the sums over the gender groups.                                        *)

NaN == [nan |-> TRUE]

IsNaN(x) == x = NaN

GENDERS == <<"Female", "Male", "Other">>

EMPLOYMENT_TYPES == <<"Full-time", "Part-time", "Self-employed", "Unemployed">>

AGE_LABELS == <<"18-30", "31-45", "46-60", "60+">>

\* The group labels of a column, in the order groupby sorts them.
LabelOrder(col) == IF col = "gender" THEN GENDERS ELSE EMPLOYMENT_TYPES

\* df.groupby(col)[outcome_col].mean(): the labels with at least one record.
GroupLabels(stats) == {g \in DOMAIN stats : stats[g].n > 0}

\* The mean of prediction over a group of s.n > 0 records, s.a of them approved.
Rate(s) == Q(s.a, s.n)

\* len(df)
Records(d) == d.groups.gender.Female.n + d.groups.gender.Male.n + d.groups.gender.Other.n

\* df["prediction"].sum()
Approved(d) == d.groups.gender.Female.a + d.groups.gender.Male.a + d.groups.gender.Other.a

NUMERICAL_FEATURES == <<"age", "income", "credit_score", "debt_ratio">>

\* The columns generate_base_features and the generators give a dataset.
COLUMNS == {"customer_id", "age", "gender", "income", "credit_score", "employment_type",
            "debt_ratio", "prediction", "actual_outcome"}

-----------------------------------------------------------------------------
(* bias_detection.py                                                       *)

\* Series.max() / Series.min() of the group means: NaN on an empty series.
SeriesMax(rates) ==
    IF rates = {} THEN NaN
    ELSE CHOOSE x \in rates : \A y \in rates : QLe(y, x)

SeriesMin(rates) ==
    IF rates = {} THEN NaN
    ELSE CHOOSE x \in rates : \A y \in rates : QLe(x, y)

\* Series.idxmax() / idxmin(): the first label, in index order, with that mean.
FirstLabel(order, stats, labels, rate) ==
    IF labels = {} THEN "nan"
    ELSE order[CHOOSE i \in 1..Len(order) :
                 /\ order[i] \in labels /\ Rate(stats[order[i]]) = rate
                 /\ \A j \in 1..(i - 1) :
                       ~(order[j] \in labels /\ Rate(stats[order[j]]) = rate)]

\* Mutant of DiRatio: the guard against a zero privileged rate yields 0.0
\* instead of 1.0.
DiRatio_ZeroOnNoApprovals(unprivileged_rate, privileged_rate) ==
    IF QLt(QI(0), privileged_rate) THEN QDiv(unprivileged_rate, privileged_rate)
    ELSE QI(0)

\* Mutant of DiRatio: the ratio is taken the wrong way round.
DiRatio_Inverted(unprivileged_rate, privileged_rate) ==
    IF QLt(QI(0), privileged_rate) /\ QLt(QI(0), unprivileged_rate)
    THEN QDiv(privileged_rate, unprivileged_rate)
    ELSE QI(1)

\* di_ratio = unprivileged_rate / privileged_rate if privileged_rate > 0 else 1.0
DiRatio(unprivileged_rate, privileged_rate) ==
    IF QLt(QI(0), privileged_rate) THEN QDiv(unprivileged_rate, privileged_rate)
    ELSE QI(1)

\* Mutant of FixedRoles: the roles are taken from the rates for gender too.
FixedRoles_Never(col) == FALSE

\* if protected_col == "gender": Male and Female have fixed roles.
FixedRoles(col) == col = "gender"

calculate_disparate_impact(d, col) ==
    LET stats == d.groups[col]
        groups == GroupLabels(stats)
        rates == {Rate(stats[g]) : g \in groups}
        get(g) == IF g \in groups THEN Rate(stats[g]) ELSE QI(0)
        gender == FixedRoles(col)
        privileged_rate == IF gender THEN get("Male") ELSE SeriesMax(rates)
        unprivileged_rate == IF gender THEN get("Female") ELSE SeriesMin(rates)
        privileged_group ==
            IF gender THEN "Male"
            ELSE FirstLabel(LabelOrder(col), stats, groups, privileged_rate)
        unprivileged_group ==
            IF gender THEN "Female"
            ELSE FirstLabel(LabelOrder(col), stats, groups, unprivileged_rate)
        di_ratio == DiRatio(unprivileged_rate, privileged_rate)
    IN  IF Cardinality(groups) < 2
        THEN [di_ratio |-> QI(1), violation |-> FALSE, details |-> <<>>]
        ELSE [di_ratio |-> round(di_ratio, 3),
              violation |-> QLt(di_ratio, DI_THRESHOLD),
              privileged_group |-> privileged_group,
              privileged_rate |-> round(privileged_rate, 3),
              unprivileged_group |-> unprivileged_group,
              unprivileged_rate |-> round(unprivileged_rate, 3),
              threshold |-> DI_THRESHOLD]

calculate_age_group_bias(d) ==
    LET stats == d.age_group
        observed == GroupLabels(stats)
        approval_by_age == [b \in DOMAIN stats |->
                               IF b \in observed THEN Rate(stats[b]) ELSE NaN]
        rates == {approval_by_age[b] : b \in observed}
        max_rate == SeriesMax(rates)
        min_rate == SeriesMin(rates)
        age_di == IF ~IsNaN(max_rate) /\ QLt(QI(0), max_rate)
                  THEN QDiv(min_rate, max_rate) ELSE QI(1)
    IN  [di_ratio |-> round(age_di, 3),
         violation |-> QLt(age_di, DI_THRESHOLD),
         approval_rates |-> [b \in DOMAIN stats |->
                                IF IsNaN(approval_by_age[b]) THEN NaN
                                ELSE round(approval_by_age[b], 3)],
         highest_group |-> FirstLabel(AGE_LABELS, stats, observed, max_rate),
         lowest_group |-> FirstLabel(AGE_LABELS, stats, observed, min_rate)]

detect_income_proxy_bias(d) ==
    LET male_income_approved == d.income.male_approved
        female_income_approved == d.income.female_approved
        male_income_denied == d.income.male_denied
        female_income_denied == d.income.female_denied
        income_gap ==
            IF IsNaN(male_income_approved) \/ IsNaN(female_income_approved) THEN NaN
            ELSE QDiv(QAbs(QSub(male_income_approved, female_income_approved)),
                      max(male_income_approved, female_income_approved))
        proxy_detected ==
            /\ ~IsNaN(female_income_denied) /\ ~IsNaN(male_income_denied)
            /\ QLt(QMul(male_income_denied, Q(11, 10)), female_income_denied)
    IN  [proxy_detected |-> proxy_detected,
         income_gap_percent |-> IF IsNaN(income_gap) THEN NaN
                                ELSE round(QMul(income_gap, QI(100)), 1),
         male_approved_avg_income |-> IF IsNaN(male_income_approved) THEN NaN
                                      ELSE round(male_income_approved, 0),
         female_approved_avg_income |-> IF IsNaN(female_income_approved) THEN NaN
                                        ELSE round(female_income_approved, 0),
         explanation |-> IF proxy_detected THEN "proxy" ELSE "no proxy"]

\* The local gender_risk of calculate_bias_risk_score (lines 116-120): the
\* regime is chosen by the reported di_ratio.
GenderRisk(gender_di) ==
    IF QLt(gender_di.di_ratio, DI_THRESHOLD)
    THEN QAdd(QI(50), QMul(QSub(DI_THRESHOLD, gender_di.di_ratio), QI(200)))
    ELSE max(QI(0), QMul(QSub(QI(1), gender_di.di_ratio), QI(20)))

\* The local age_risk (line 123).
AgeRisk(age_bias) ==
    IF QLt(age_bias.di_ratio, DI_THRESHOLD)
    THEN QMul(max(QI(0), QDiv(QSub(DI_THRESHOLD, age_bias.di_ratio), DI_THRESHOLD)),
              QI(100))
    ELSE QI(0)

\* The local proxy_risk (line 126).
ProxyRisk(income_proxy) == IF income_proxy.proxy_detected THEN QI(20) ELSE QI(0)

\* Mutant of WeightedBias: the clamp min(100, .) is dropped.
WeightedBias_NoClamp(gender_risk, age_risk, proxy_risk) ==
    QAdd(QAdd(QMul(Q(6, 10), gender_risk), QMul(Q(25, 100), age_risk)),
         QMul(Q(15, 100), proxy_risk))

\* The local bias_risk_score before rounding (lines 129-133).
WeightedBias(gender_risk, age_risk, proxy_risk) ==
    min(QI(100),
        QAdd(QAdd(QMul(Q(6, 10), gender_risk), QMul(Q(25, 100), age_risk)),
             QMul(Q(15, 100), proxy_risk)))

BiasExplanation(s) ==
    IF QLt(s, QI(20)) THEN "No significant bias"
    ELSE IF QLt(s, QI(50)) THEN "Minor bias"
    ELSE IF QLt(s, QI(75)) THEN "Moderate bias"
    ELSE "Severe bias"

BiasViolations(gender_di, age_bias, income_proxy) ==
    (IF gender_di.violation
     THEN <<[type |-> "Gender Disparate Impact",
             severity |-> IF QLt(gender_di.di_ratio, Q(7, 10)) THEN "Critical" ELSE "High",
             value |-> gender_di.di_ratio,
             threshold |-> DI_THRESHOLD]>>
     ELSE <<>>)
    \o (IF age_bias.violation
        THEN <<[type |-> "Age Group Disparate Impact",
                severity |-> "Moderate",
                value |-> age_bias.di_ratio,
                threshold |-> DI_THRESHOLD]>>
        ELSE <<>>)
    \o (IF income_proxy.proxy_detected
        THEN <<[type |-> "Income Proxy Bias", severity |-> "Moderate"]>>
        ELSE <<>>)

calculate_bias_risk_score(d) ==
    LET gender_di == calculate_disparate_impact(d, "gender")
        age_bias == calculate_age_group_bias(d)
        income_proxy == detect_income_proxy_bias(d)
        gender_risk == GenderRisk(gender_di)
        age_risk == AgeRisk(age_bias)
        proxy_risk == ProxyRisk(income_proxy)
        bias_risk_score == WeightedBias(gender_risk, age_risk, proxy_risk)
        violations == BiasViolations(gender_di, age_bias, income_proxy)
    IN  [bias_risk_score |-> round(bias_risk_score, 1),
         gender_di |-> gender_di,
         age_bias |-> age_bias,
         income_proxy |-> income_proxy,
         violations |-> violations,
         explanation |-> BiasExplanation(bias_risk_score),
         total_violations |-> Len(violations)]

-----------------------------------------------------------------------------
(* drift_detection.py                                                      *)

\* ks is the (statistic, p_value) pair stats.ks_2samp returned.
ks_test_feature(ks) ==
    [statistic |-> round(ks.statistic, 4),
     p_value |-> round(ks.p_value, 4),
     drift_detected |-> QLt(ks.p_value, Q(5, 100))]

calculate_feature_drift(b, d) ==
    [feature \in {NUMERICAL_FEATURES[i] : i \in 1..Len(NUMERICAL_FEATURES)} |->
        LET baseline_mean == b.features[feature].mean
            current_mean == d.features[feature].mean
            mean_shift == QMul(QDiv(QSub(current_mean, baseline_mean), baseline_mean),
                               QI(100))
        IN  [ks_test |-> ks_test_feature(d.features[feature].ks),
             baseline_mean |-> round(baseline_mean, 2),
             current_mean |-> round(current_mean, 2),
             mean_shift_percent |-> round(mean_shift, 2),
             baseline_std |-> round(b.features[feature].std, 2),
             current_std |-> round(d.features[feature].std, 2)]]

\* For a dataframe with at least one record.
calculate_accuracy_drift(d) ==
    LET baseline_accuracy == Q(87, 100)
        current_accuracy == Q(d.correct, Records(d))
        accuracy_drop == QSub(baseline_accuracy, current_accuracy)
        accuracy_drop_percent == QMul(QDiv(accuracy_drop, baseline_accuracy), QI(100))
    IN  [baseline_accuracy |-> baseline_accuracy,
         current_accuracy |-> round(current_accuracy, 3),
         accuracy_drop |-> round(accuracy_drop, 3),
         accuracy_drop_percent |-> round(accuracy_drop_percent, 1),
         significant_drop |-> QLt(Q(5, 100), accuracy_drop)]

\* For dataframes with at least one record each.  A baseline approval rate
\* of 0 makes the numpy division give nan or inf (no exception): NaN here.
calculate_prediction_drift(b, d) ==
    LET baseline_approval_rate == Q(Approved(b), Records(b))
        current_approval_rate == Q(Approved(d), Records(d))
        rate_change == QSub(current_approval_rate, baseline_approval_rate)
        rate_change_percent ==
            IF baseline_approval_rate = QI(0) THEN NaN
            ELSE QMul(QDiv(rate_change, baseline_approval_rate), QI(100))
    IN  [baseline_approval_rate |-> round(baseline_approval_rate, 3),
         current_approval_rate |-> round(current_approval_rate, 3),
         rate_change |-> round(rate_change, 3),
         rate_change_percent |-> IF IsNaN(rate_change_percent) THEN NaN
                                 ELSE round(rate_change_percent, 1),
         significant_change |-> QLt(Q(5, 100), QAbs(rate_change))]

\* Mutant of FlaggedFeatures: only the first flagged feature is kept.
FlaggedFeatures_First(feature_drift) ==
    LET flagged == SelectSeq(NUMERICAL_FEATURES,
                             LAMBDA f : feature_drift[f].ks_test.drift_detected)
    IN  IF flagged = <<>> THEN <<>> ELSE <<flagged[1]>>

\* The features whose test flagged drift, in the order of feature_drift.
FlaggedFeatures(feature_drift) ==
    SelectSeq(NUMERICAL_FEATURES, LAMBDA f : feature_drift[f].ks_test.drift_detected)

\* feature_drift_score = (features_with_drift / 4) * 40
FeatureDriftScore(features_with_drift) == QMul(Q(features_with_drift, 4), QI(40))

\* accuracy_drop_score = min(40, accuracy_drop_percent * 4)
AccuracyDropScore(accuracy_drift) ==
    min(QI(40), QMul(accuracy_drift.accuracy_drop_percent, QI(4)))

\* prediction_shift_score = min(20, abs(rate_change_percent) * 2); Python's
\* min(20, x) answers 20 when x is nan or inf.
PredictionShiftScore(prediction_drift) ==
    IF IsNaN(prediction_drift.rate_change_percent) THEN QI(20)
    ELSE min(QI(20), QMul(QAbs(prediction_drift.rate_change_percent), QI(2)))

\* The sum of line 129 is a sum of doubles.  [t, j, u] is the double
\* t/10 + j / (10 * 2^u): t tenths, and j / (10 * 2^u) the distance of the
\* double from the decimal number t/10 (j = 0: the double is t/10 itself).
Double == [t : Int, j : Int, u : Int]

Exact(t) == [t |-> t, j |-> 0, u |-> 0]

\* floor(log2(|t| / 10)) for t # 0
Log2Tenths[t \in Int] ==
    CHOOSE e \in -8..12 :
        IF e >= 0 THEN 10 * 2^e <= Abs(t) /\ Abs(t) < 10 * 2^(e + 1)
        ELSE Abs(t) * 2^(-e) >= 10 /\ Abs(t) * 2^(-e - 1) < 10

\* num / den rounded to the nearest integer, a tie to the one that makes
\* odd + the integer even
Nearest[num \in Int, den \in Int, odd \in Int] ==
    LET down == num \div den
        rest == 2 * (num - down * den)
    IN  IF rest < den THEN down
        ELSE IF rest > den THEN down + 1
        ELSE IF (down + odd) % 2 = 0 THEN down ELSE down + 1

\* t/10 + J / (10 * 2^U) rounded to the nearest multiple of 2^-g, a tie to
\* the even multiple
RoundToBits[t \in Int, J \in Int, U \in Int, g \in Int] ==
    LET pow2mod10 == CASE g % 4 = 1 -> 2 [] g % 4 = 2 -> 4 [] g % 4 = 3 -> 8 [] OTHER -> 6
        pow2mod20 == CASE g % 4 = 2 -> 4 [] g % 4 = 3 -> 8 [] g % 4 = 0 -> 16 [] OTHER -> 12
        \* t * 2^g = 10 * M + r
        r == ((t % 10) * pow2mod10) % 10
        M_odd == ((((t % 20) * pow2mod20) % 20) - r) \div 10
        num == IF J = 0 THEN r
               ELSE IF g >= U THEN r + J * 2^(g - U) ELSE r * 2^(U - g) + J
        den == IF J = 0 \/ g >= U THEN 10 ELSE 10 * 2^(U - g)
    IN  [t |-> t, j |-> 10 * Nearest[num, den, M_odd] - r, u |-> g]

\* The sum a + b of two doubles, rounded to the nearest double (53 bits,
\* ties to even).
FAdd[a \in Double, b \in Double] ==
    LET t == a.t + b.t
        U == IF a.j = 0 THEN b.u ELSE IF b.j = 0 THEN a.u
             ELSE IF a.u < b.u THEN b.u ELSE a.u
        J == (IF a.j = 0 THEN 0 ELSE a.j * 2^(U - a.u))
             + (IF b.j = 0 THEN 0 ELSE b.j * 2^(U - b.u))
        e0 == Log2Tenths[t]
        power_of_two == IF e0 >= 0 THEN Abs(t) = 10 * 2^e0 ELSE Abs(t) * 2^(-e0) = 10
        towards_zero == (J < 0 /\ t > 0) \/ (J > 0 /\ t < 0)
        \* the doubles around the sum are the multiples of 2^-g
        g == 52 - (IF power_of_two /\ towards_zero THEN e0 - 1 ELSE e0)
    IN  IF t = 0 THEN [t |-> 0, j |-> J, u |-> U]
        ELSE RoundToBits[t, J, U, g]

\* The double a rounded one-decimal float x is: the one nearest to x.
double(x) == FAdd[Exact((x.n * 10) \div x.d), Exact(0)]

\* a * 2^m, exact in binary
FTimes[a \in Double, m \in Int] == [t |-> a.t * 2^m, j |-> a.j, u |-> a.u - m]

\* a < c for a double a and an int c
FLt(a, c) == a.t < 10 * c \/ (a.t = 10 * c /\ a.j < 0)

\* Python min(c, a) for an int c and a double a
FMin[c \in Int, a \in Double] == IF FLt(a, c) THEN a ELSE Exact(10 * c)

\* round(a, 1) of a double a
FRound1(a) == Q(a.t, 10)

\* drift_risk_score = feature_drift_score + accuracy_drop_score
\*                    + prediction_shift_score, as Python computes it
DriftRiskSum(features_with_drift, accuracy_drift, prediction_drift) ==
    FAdd[FAdd[Exact(features_with_drift * 100),
              FMin[40, FTimes[double(accuracy_drift.accuracy_drop_percent), 2]]],
         IF IsNaN(prediction_drift.rate_change_percent) THEN Exact(200)
         ELSE FMin[20, FTimes[double(QAbs(prediction_drift.rate_change_percent)), 1]]]

DriftSeverity[drift_risk_score \in Double] ==
    IF FLt(drift_risk_score, 20) THEN "Low"
    ELSE IF FLt(drift_risk_score, 40) THEN "Moderate"
    ELSE IF FLt(drift_risk_score, 60) THEN "High"
    ELSE "Critical"

\* b is the dataframe get_baseline_dataset() returned.
calculate_drift_risk_score(b, current_df) ==
    LET feature_drift == calculate_feature_drift(b, current_df)
        accuracy_drift == calculate_accuracy_drift(current_df)
        prediction_drift == calculate_prediction_drift(b, current_df)
        flagged == FlaggedFeatures(feature_drift)
        features_with_drift == Len(flagged)
        feature_drift_score == FeatureDriftScore(features_with_drift)
        accuracy_drop_score == AccuracyDropScore(accuracy_drift)
        prediction_shift_score == PredictionShiftScore(prediction_drift)
        drift_risk_score ==
            DriftRiskSum(features_with_drift, accuracy_drift, prediction_drift)
    IN  [drift_risk_score |-> FRound1(drift_risk_score),
         severity |-> DriftSeverity[drift_risk_score],
         feature_drift |-> feature_drift,
         accuracy_drift |-> accuracy_drift,
         prediction_drift |-> prediction_drift,
         features_with_drift |-> features_with_drift,
         drifted_features |->
            [i \in 1..Len(flagged) |->
                [feature |-> flagged[i],
                 mean_shift |-> feature_drift[flagged[i]].mean_shift_percent,
                 ks_statistic |-> feature_drift[flagged[i]].ks_test.statistic]],
         explanation |-> DriftSeverity[drift_risk_score]]

\* [x] if cond else []
When(cond, x) == IF cond THEN <<x>> ELSE <<>>

-----------------------------------------------------------------------------
(* explainability.py                                                       *)

Elements(q) == {q[i] : i \in 1..Len(q)}

\* sum(1 for f in fields if f in df.columns)
Present(fields, d) == Cardinality(Elements(fields) \cap d.columns)

\* The per-feature variation and influence figures are not modelled: only
\* presence and the (simulated) documentation flag.
calculate_feature_importance_coverage(d) ==
    LET key_features == <<"age", "income", "credit_score", "debt_ratio", "employment_type">>
        documented_features == Present(key_features, d)
        documentation_coverage == QMul(Q(documented_features, Len(key_features)), QI(100))
    IN  [feature_analysis |-> [f \in Elements(key_features) |->
                                  [present |-> f \in d.columns,
                                   documented |-> f \in d.columns]],
         documentation_coverage |-> round(documentation_coverage, 1),
         documented_features |-> documented_features,
         total_features |-> Len(key_features)]

\* For a dataframe with at least one record.
calculate_decision_transparency(d) ==
    LET near_boundary == Q(d.near_boundary, Records(d))
        clarity_score == QMul(QSub(QI(1), near_boundary), QI(100))
    IN  [clarity_score |-> round(clarity_score, 1),
         near_boundary_percent |-> round(QMul(near_boundary, QI(100)), 1),
         interpretation |-> IF QLt(QI(70), clarity_score) THEN "Clear"
                            ELSE IF QLt(QI(50), clarity_score) THEN "Moderate"
                            ELSE "Unclear"]

calculate_audit_trail_coverage(d) ==
    LET required_fields == <<"customer_id", "prediction", "actual_outcome">>
        optional_fields == <<"age", "gender", "income", "credit_score", "employment_type",
                             "debt_ratio">>
        required_coverage == QMul(Q(Present(required_fields, d), Len(required_fields)),
                                  QI(100))
        optional_coverage == QMul(Q(Present(optional_fields, d), Len(optional_fields)),
                                  QI(100))
        total_coverage == QAdd(QMul(required_coverage, Q(7, 10)),
                               QMul(optional_coverage, Q(3, 10)))
    IN  [required_fields_coverage |-> round(required_coverage, 1),
         optional_fields_coverage |-> round(optional_coverage, 1),
         total_coverage |-> round(total_coverage, 1),
         missing_required |-> SelectSeq(required_fields, LAMBDA f : f \notin d.columns),
         missing_optional |-> SelectSeq(optional_fields, LAMBDA f : f \notin d.columns)]

ExplainabilityExplanation(s) ==
    IF QLt(QI(80), s) THEN "Excellent explainability"
    ELSE IF QLt(QI(60), s) THEN "Good explainability"
    ELSE IF QLt(QI(40), s) THEN "Moderate explainability"
    ELSE "Poor explainability"

\* Mutant of ExplainabilityGaps: the clarity gap is reported below 70.
ExplainabilityGaps_ClarityBelow70(feature_coverage, transparency, audit_trail) ==
    When(QLt(feature_coverage.documentation_coverage, QI(80)),
         "Feature importance documentation incomplete")
    \o When(QLt(transparency.clarity_score, QI(70)), "Decision boundaries are unclear")
    \o When(QLt(audit_trail.total_coverage, QI(90)), "Audit trail coverage is insufficient")

ExplainabilityGaps(feature_coverage, transparency, audit_trail) ==
    When(QLt(feature_coverage.documentation_coverage, QI(80)),
         "Feature importance documentation incomplete")
    \o When(QLt(transparency.clarity_score, QI(60)), "Decision boundaries are unclear")
    \o When(QLt(audit_trail.total_coverage, QI(90)), "Audit trail coverage is insufficient")

calculate_explainability_score(d) ==
    LET feature_coverage == calculate_feature_importance_coverage(d)
        transparency == calculate_decision_transparency(d)
        audit_trail == calculate_audit_trail_coverage(d)
        score == QAdd(QAdd(QMul(Q(4, 10), feature_coverage.documentation_coverage),
                           QMul(Q(35, 100), transparency.clarity_score)),
                      QMul(Q(25, 100), audit_trail.total_coverage))
    IN  [explainability_score |-> round(score, 1),
         feature_coverage |-> feature_coverage,
         transparency |-> transparency,
         audit_trail |-> audit_trail,
         explanation |-> ExplainabilityExplanation(score),
         gaps |-> ExplainabilityGaps(feature_coverage, transparency, audit_trail)]

-----------------------------------------------------------------------------
(* recommendations.py                                                      *)
(* A recommendation is modelled by its id, severity and category; the      *)
(* remaining fields are constant texts.                                    *)

Recommendation(id, severity, category) ==
    [id |-> id, severity |-> severity, category |-> category]

\* x in list
In(x, list) == \E i \in 1..Len(list) : list[i] = x

generate_bias_recommendations(b) ==
    LET bias_score_ == b.bias_risk_score
        violations == b.violations
    IN  When(QLt(QI(70), bias_score_), Recommendation("BIAS_001", "Critical", "Bias"))
        \o When(\E i \in 1..Len(violations) : violations[i].type = "Gender Disparate Impact",
                Recommendation("BIAS_002", "Critical", "Bias"))
        \o When(b.income_proxy.proxy_detected, Recommendation("BIAS_003", "High", "Bias"))
        \o When(QLt(QI(40), bias_score_) /\ QLe(bias_score_, QI(70)),
                Recommendation("BIAS_004", "Moderate", "Bias"))

\* Mutant of generate_drift_recommendations: DRIFT_002 is appended once per
\* drifted feature.
generate_drift_recommendations_PerFeature(d) ==
    LET drift_score_ == d.drift_risk_score
        accuracy_drift == d.accuracy_drift
        drifted_features == d.drifted_features
    IN  When(QLt(QI(60), drift_score_), Recommendation("DRIFT_001", "Critical", "Drift"))
        \o [i \in 1..Len(drifted_features) |-> Recommendation("DRIFT_002", "High", "Drift")]
        \o When(accuracy_drift.significant_drop, Recommendation("DRIFT_003", "High", "Drift"))
        \o When(QLt(QI(30), drift_score_) /\ QLe(drift_score_, QI(60)),
                Recommendation("DRIFT_004", "Moderate", "Drift"))

generate_drift_recommendations(d) ==
    LET drift_score_ == d.drift_risk_score
        accuracy_drift == d.accuracy_drift
        drifted_features == d.drifted_features
    IN  When(QLt(QI(60), drift_score_), Recommendation("DRIFT_001", "Critical", "Drift"))
        \o When(drifted_features # <<>>, Recommendation("DRIFT_002", "High", "Drift"))
        \o When(accuracy_drift.significant_drop, Recommendation("DRIFT_003", "High", "Drift"))
        \o When(QLt(QI(30), drift_score_) /\ QLe(drift_score_, QI(60)),
                Recommendation("DRIFT_004", "Moderate", "Drift"))

generate_explainability_recommendations(e) ==
    LET score == e.explainability_score
        gaps == e.gaps
    IN  When(QLt(score, QI(60)), Recommendation("EXPLAIN_001", "High", "Explainability"))
        \o When(In("Feature importance documentation incomplete", gaps),
                Recommendation("EXPLAIN_002", "Moderate", "Explainability"))
        \o When(In("Decision boundaries are unclear", gaps),
                Recommendation("EXPLAIN_003", "Moderate", "Explainability"))

\* severity_order.get(x["severity"], 4)
SeverityRank(severity) ==
    CASE severity = "Critical" -> 0
      [] severity = "High" -> 1
      [] severity = "Moderate" -> 2
      [] severity = "Low" -> 3
      [] OTHER -> 4

\* Mutant of SortBySeverity: the list is returned as collected.
SortBySeverity_NotSorted(all_recommendations) == all_recommendations

\* Mutant of SortBySeverity: sorted by rank, but the elements of one rank come
\* out in the reverse of the order they went in.
SortBySeverity_Unstable(all_recommendations) ==
    LET Reverse(q) == [i \in 1..Len(q) |-> q[Len(q) + 1 - i]]
        OfRank(k) == SelectSeq(all_recommendations, LAMBDA x : SeverityRank(x.severity) = k)
    IN  Reverse(OfRank(0)) \o Reverse(OfRank(1)) \o Reverse(OfRank(2))
        \o Reverse(OfRank(3)) \o Reverse(OfRank(4))

\* list.sort(key = rank): a stable sort, so the elements of each rank keep
\* their order and the ranks follow each other.
SortBySeverity(all_recommendations) ==
    LET OfRank(k) == SelectSeq(all_recommendations, LAMBDA x : SeverityRank(x.severity) = k)
    IN  OfRank(0) \o OfRank(1) \o OfRank(2) \o OfRank(3) \o OfRank(4)

\* Mutant of AddOverall: both overall items are appended whenever the score
\* is above 50.
AddOverall_AppendedBoth(collected, score) ==
    IF QLt(QI(50), score)
    THEN collected \o <<Recommendation("GENERAL_001", "Critical", "Overall"),
                        Recommendation("GENERAL_002", "Moderate", "Overall")>>
    ELSE collected

\* if ai_risk_score > 70: insert(0, GENERAL_001) elif ai_risk_score > 50:
\* append(GENERAL_002)
AddOverall(collected, score) ==
    IF QLt(QI(70), score)
    THEN <<Recommendation("GENERAL_001", "Critical", "Overall")>> \o collected
    ELSE IF QLt(QI(50), score)
    THEN collected \o <<Recommendation("GENERAL_002", "Moderate", "Overall")>>
    ELSE collected

generate_all_recommendations(b, d, e, score) ==
    LET collected == generate_bias_recommendations(b)
                     \o generate_drift_recommendations(d)
                     \o generate_explainability_recommendations(e)
        all_recommendations == AddOverall(collected, score)
    IN  SortBySeverity(all_recommendations)

-----------------------------------------------------------------------------
(* Inputs of the risk aggregator: a grid over [0,100] that runs OverRange  *)
(* steps past both ends, and the values of the documented scenarios.       *)

GridStep == 10
OverRange == 2

GridScores == {QI(GridStep * k) : k \in (-OverRange)..((100 \div GridStep) + OverRange)}

BiasInputs == GridScores \cup {Q(501, 10), QI(72), Q(1001, 10), QI(300)}
DriftInputs == GridScores \cup {Q(-598, 10), QI(10), QI(86)}
ExplainabilityInputs == GridScores \cup {QI(76), QI(90)}

\* The variables a specification does not use stay None.
IdleRisk == bias_score = None /\ drift_score = None /\ explainability_score = None
            /\ ai_risk = None
IdleDI == protected_col = None /\ di_result = None /\ age_result = None
IdleBias == bias_result = None /\ bias_locals = None
IdleDrift == baseline_df = None /\ drift_result = None /\ drift_locals = None
IdleRecs == explainability_result = None /\ ai_risk_score = None
            /\ recommendations = <<>> /\ pc = "idle"
IdleAnalyzers == given_df = None /\ calls = None /\ audit_result = None
IdleRun == audits = None /\ clock = 0
IdleStore == store = None /\ response = None /\ returned = None
IdleEngine == IdleAnalyzers /\ rng = None /\ IdleRun /\ age_records = None /\ IdleStore

InitRisk ==
    /\ bias_score \in BiasInputs
    /\ drift_score \in DriftInputs
    /\ explainability_score \in ExplainabilityInputs
    /\ ai_risk = None
    /\ df = None /\ IdleDI /\ IdleBias /\ IdleDrift /\ IdleRecs /\ IdleEngine

CalculateAiRiskScore ==
    /\ ai_risk = None
    /\ ai_risk' = calculate_ai_risk_score(bias_score, drift_score, explainability_score)
    /\ UNCHANGED <<bias_score, drift_score, explainability_score, df, diVars, biasVars,
                   driftVars, recVars, engineVars>>

NextRisk == CalculateAiRiskScore

SpecRisk == InitRisk /\ [][NextRisk]_vars

-----------------------------------------------------------------------------
(* Datasets handed to the bias analyzer.  Each family varies one part of   *)
(* the dataframe's statistics around DefaultDf.                            *)

MaxGroup == 2        \* records per group in the small datasets
ScenarioGroup == 5   \* group size of the 0.60 / 0.40 approval-rate scenarios
BigGroup == 2500     \* records in the large female group
MaxDrop == 3         \* approvals withdrawn at once when rates are compared

Stats(sizes) == UNION {{[n |-> k, a |-> j] : j \in 0..k} : k \in sizes}

NoRecords == [n |-> 0, a |-> 0]

\* A numeric column against the baseline column (mean 100, std 10): the same
\* distribution, a shift at the edge of significance (p = 0.05), a shift.
Stable == [mean |-> QI(100), std |-> QI(10),
           ks |-> [statistic |-> Q(2, 100), p_value |-> Q(1, 2)]]
Borderline == [mean |-> QI(101), std |-> QI(10),
               ks |-> [statistic |-> Q(6, 100), p_value |-> Q(5, 100)]]
Shifted == [mean |-> Q(2401, 20), std |-> QI(12),
            ks |-> [statistic |-> Q(31234, 100000), p_value |-> Q(1, 100000)]]

DefaultDf ==
    [groups |->
        [gender |-> [Female |-> [n |-> 5, a |-> 3], Male |-> [n |-> 5, a |-> 3],
                     Other |-> NoRecords],
         employment_type |-> [e \in {"Full-time", "Part-time", "Self-employed", "Unemployed"}
                                 |-> [n |-> 1, a |-> 1]]],
     age_group |-> [b \in {"18-30", "31-45", "46-60", "60+"} |-> [n |-> 1, a |-> 1]],
     income |-> [male_approved |-> QI(100), female_approved |-> QI(100),
                 male_denied |-> QI(100), female_denied |-> QI(100)],
     correct |-> 9,
     features |-> [f \in {"age", "income", "credit_score", "debt_ratio"} |-> Stable],
     columns |-> COLUMNS,
     near_boundary |-> 2]

GenderGroups(F, M, O) ==
    {[Female |-> f, Male |-> m, Other |-> o] : f \in F, m \in M, o \in O}

GenderFamily ==
    {[DefaultDf EXCEPT !.groups.gender = g] :
        g \in GenderGroups(Stats(0..MaxGroup \cup {ScenarioGroup}),
                           Stats(0..MaxGroup \cup {ScenarioGroup}),
                           Stats(0..1))}

BigFemaleFamily ==
    {[DefaultDf EXCEPT !.groups.gender = g] :
        g \in GenderGroups(Stats({BigGroup}),
                           {[n |-> 1, a |-> 1], [n |-> 2, a |-> 1]},
                           {NoRecords})}

\* A large Male group next to one or two Female records.
BigMaleFamily ==
    {[DefaultDf EXCEPT !.groups.gender = g] :
        g \in GenderGroups({[n |-> 1, a |-> 1], [n |-> 2, a |-> 1]},
                           Stats({BigGroup}),
                           {NoRecords})}

EmploymentFamily ==
    {[DefaultDf EXCEPT !.groups.employment_type = g] :
        g \in [DOMAIN DefaultDf.groups.employment_type -> Stats(0..MaxGroup)]}

\* At least one record falls in an age bucket.
AgeGroups(sizes) ==
    {g \in [DOMAIN DefaultDf.age_group -> Stats(sizes)] : \E b \in DOMAIN g : g[b].n > 0}

AgeFamily == {[DefaultDf EXCEPT !.age_group = g] : g \in AgeGroups(0..MaxGroup)}

Incomes ==
    [male_approved : {NaN, QI(100)}, female_approved : {NaN, QI(80), QI(120)},
     male_denied : {NaN, QI(100)}, female_denied : {NaN, QI(110), QI(111)}]

IncomeFamily == {[DefaultDf EXCEPT !.income = i] : i \in Incomes}

MixedFamily ==
    {[DefaultDf EXCEPT !.groups.gender = g, !.age_group = b, !.income.female_denied = i] :
        g \in GenderGroups(Stats(1..MaxGroup), Stats(1..MaxGroup), {NoRecords}),
        b \in AgeGroups(0..1),
        i \in {QI(110), QI(111)}}

-----------------------------------------------------------------------------
(* SpecDI: calculate_disparate_impact and calculate_age_group_bias, each   *)
(* called once on a dataset.                                               *)

InitDI ==
    /\ \/ /\ df \in GenderFamily \cup BigFemaleFamily \cup BigMaleFamily \cup AgeFamily
          /\ protected_col = "gender"
       \/ df \in EmploymentFamily /\ protected_col = "employment_type"
    /\ di_result = None /\ age_result = None
    /\ IdleRisk /\ IdleBias /\ IdleDrift /\ IdleRecs /\ IdleEngine

CalculateDisparateImpact ==
    /\ di_result = None
    /\ di_result' = calculate_disparate_impact(df, protected_col)
    /\ UNCHANGED <<riskVars, df, protected_col, age_result, biasVars, driftVars, recVars,
                   engineVars>>

CalculateAgeGroupBias ==
    /\ age_result = None
    /\ age_result' = calculate_age_group_bias(df)
    /\ UNCHANGED <<riskVars, df, protected_col, di_result, biasVars, driftVars, recVars,
                   engineVars>>

NextDI == CalculateDisparateImpact \/ CalculateAgeGroupBias

SpecDI == InitDI /\ [][NextDI]_vars

-----------------------------------------------------------------------------
(* SpecBias: calculate_bias_risk_score called once on a dataset.           *)

InitBias ==
    /\ df \in GenderFamily \cup BigFemaleFamily \cup AgeFamily \cup IncomeFamily
              \cup MixedFamily
    /\ bias_result = None /\ bias_locals = None
    /\ IdleRisk /\ IdleDI /\ IdleDrift /\ IdleRecs /\ IdleEngine

CalculateBiasRiskScore ==
    /\ bias_result = None
    /\ bias_result' = calculate_bias_risk_score(df)
    /\ bias_locals' =
          [gender_risk |-> GenderRisk(bias_result'.gender_di),
           age_risk |-> AgeRisk(bias_result'.age_bias),
           proxy_risk |-> ProxyRisk(bias_result'.income_proxy)]
    /\ UNCHANGED <<riskVars, df, diVars, driftVars, recVars, engineVars>>

NextBias == CalculateBiasRiskScore

SpecBias == InitBias /\ [][NextBias]_vars

-----------------------------------------------------------------------------
(* SpecDrift: calculate_drift_risk_score called once on a dataset, against *)
(* the baseline get_baseline_dataset() returns.                            *)

BaselineRecords == 4   \* records of the baseline in the approval-rate family

\* The accuracy and the four feature tests vary; approval rates are equal.
AccuracyFamily ==
    {[DefaultDf EXCEPT !.correct = c, !.features = f] :
        c \in 0..Records(DefaultDf),
        f \in [DOMAIN DefaultDf.features -> {Stable, Borderline, Shifted}]}

\* The accuracy of a large dataset varies (one Male record, BigGroup Female
\* records, four of five approved).
BigAccuracyFamily ==
    {[DefaultDf EXCEPT !.groups.gender.Male = [n |-> 1, a |-> 1],
                       !.groups.gender.Female = [n |-> BigGroup, a |-> 4 * (BigGroup \div 5)],
                       !.correct = c] :
        c \in 0..(BigGroup + 1)}

\* The current approval rate varies (at least one record).
ApprovalFamily ==
    {[DefaultDf EXCEPT !.groups.gender = g, !.correct = c] :
        g \in GenderGroups(Stats(0..MaxGroup), Stats(1..MaxGroup), {NoRecords}),
        c \in 0..1}

Baselines ==
    {[DefaultDf EXCEPT !.groups.gender.Male = NoRecords, !.groups.gender.Female = s] :
        s \in Stats({BaselineRecords})}

\* 81 records, an accuracy above the baseline accuracy 0.87, an approval rate
\* near the baseline's, the four features stable or shifted together.
AboveBaselineFamily ==
    {[DefaultDf EXCEPT !.groups.gender.Male = NoRecords,
                       !.groups.gender.Female = [n |-> 81, a |-> a],
                       !.correct = c,
                       !.features = [f \in DOMAIN DefaultDf.features |-> x]] :
        a \in 21..23, c \in 76..78, x \in {Stable, Shifted}}

InitDrift ==
    /\ \/ df \in AccuracyFamily \cup BigAccuracyFamily /\ baseline_df = DefaultDf
       \/ df \in ApprovalFamily \cup AboveBaselineFamily /\ baseline_df \in Baselines
    /\ drift_result = None /\ drift_locals = None
    /\ IdleRisk /\ IdleDI /\ IdleBias /\ IdleRecs /\ IdleEngine

CalculateDriftRiskScore ==
    /\ drift_result = None
    /\ drift_result' = calculate_drift_risk_score(baseline_df, df)
    /\ drift_locals' =
          [feature_drift_score |-> FeatureDriftScore(drift_result'.features_with_drift),
           accuracy_drop_score |-> AccuracyDropScore(drift_result'.accuracy_drift),
           prediction_shift_score |-> PredictionShiftScore(drift_result'.prediction_drift)]
    /\ UNCHANGED <<riskVars, df, diVars, biasVars, baseline_df, recVars, engineVars>>

\* generate_drift_recommendations called on the result.
GenerateDriftRecommendations ==
    /\ drift_result # None /\ pc = "idle"
    /\ recommendations' = generate_drift_recommendations(drift_result)
    /\ pc' = "return"
    /\ UNCHANGED <<riskVars, df, diVars, biasVars, driftVars, explainability_result,
                   ai_risk_score, engineVars>>

NextDrift == CalculateDriftRiskScore \/ GenerateDriftRecommendations

SpecDrift == InitDrift /\ [][NextDrift]_vars

-----------------------------------------------------------------------------
(* SpecRecs: generate_all_recommendations called once, on any component    *)
(* results (the fields the rules read) and any composite score.            *)

GAPS == <<"Feature importance documentation incomplete",
          "Decision boundaries are unclear",
          "Audit trail coverage is insufficient">>

GapLists == {SelectSeq(GAPS, LAMBDA g : g \in S) : S \in SUBSET {GAPS[i] : i \in 1..Len(GAPS)}}

ViolationLists ==
    {<<>>,
     <<[type |-> "Gender Disparate Impact", severity |-> "Critical"]>>,
     <<[type |-> "Age Group Disparate Impact", severity |-> "Moderate"]>>,
     <<[type |-> "Gender Disparate Impact", severity |-> "Critical"],
       [type |-> "Age Group Disparate Impact", severity |-> "Moderate"]>>}

\* The scores at, just above and around the thresholds the rules compare to.
RuleScores(thresholds) ==
    UNION {{QI(t), Q(10 * t + 1, 10)} : t \in thresholds} \cup {QI(0), QI(100)}

BiasResults ==
    [bias_risk_score : RuleScores({40, 70}),
     violations : ViolationLists,
     income_proxy : [proxy_detected : BOOLEAN]]

DriftResults ==
    [drift_risk_score : RuleScores({30, 60}) \ {QI(0), QI(100)},
     accuracy_drift : [significant_drop : BOOLEAN],
     drifted_features : {<<>>, <<[feature |-> "income"]>>,
                         <<[feature |-> "income"], [feature |-> "credit_score"]>>}]

ExplainabilityResults ==
    [explainability_score : {Q(599, 10), QI(60)}, gaps : GapLists]

InitRecs ==
    /\ bias_result \in BiasResults
    /\ drift_result \in DriftResults
    /\ explainability_result \in ExplainabilityResults
    /\ ai_risk_score \in RuleScores({50, 70}) \ {QI(0), QI(100)}
    /\ recommendations = <<>> /\ pc = "call"
    /\ IdleRisk /\ IdleDI /\ df = None
    /\ bias_locals = None /\ baseline_df = None /\ drift_locals = None
    /\ IdleEngine

GenerateAllRecommendations ==
    /\ pc = "call"
    /\ recommendations' = generate_all_recommendations(
                             bias_result, drift_result, explainability_result, ai_risk_score)
    /\ pc' = "return"
    /\ UNCHANGED <<riskVars, df, diVars, biasVars, driftVars, explainability_result,
                   ai_risk_score, engineVars>>

NextRecs == GenerateAllRecommendations

SpecRecs == InitRecs /\ [][NextRecs]_vars

-----------------------------------------------------------------------------
(* dataset_generator.py: the three generated datasets.  The sample values  *)
(* numpy draws are not modelled; each dataset is given by figures that     *)
(* agree with what its generator builds in (DATASET_SIZE records, the      *)
(* accuracy rate, the gender penalty, the shifted columns).                *)

DATASET_SIZE == 1000

Column(mean, std, statistic, p_value) ==
    [mean |-> mean, std |-> std, ks |-> [statistic |-> statistic, p_value |-> p_value]]

\* Dataset A: no gender bias (DI about 0.95), accuracy 87%; it is its own
\* baseline, so every KS test answers (0, 1).
generate_clean_dataset ==
    [groups |->
        [gender |-> [Female |-> [n |-> 480, a |-> 263],
                     Male |-> [n |-> DATASET_SIZE - 480, a |-> 300],
                     Other |-> NoRecords],
         employment_type |->
            [e \in DOMAIN DefaultDf.groups.employment_type |->
                CASE e = "Full-time" -> [n |-> 650, a |-> 400]
                  [] e = "Part-time" -> [n |-> 150, a |-> 75]
                  [] e = "Self-employed" -> [n |-> 150, a |-> 80]
                  [] OTHER -> [n |-> 50, a |-> 8]]],
     age_group |->
        [b \in DOMAIN DefaultDf.age_group |->
            CASE b = "18-30" -> [n |-> 150, a |-> 80]
              [] b = "31-45" -> [n |-> 420, a |-> 240]
              [] b = "46-60" -> [n |-> 330, a |-> 190]
              [] OTHER -> [n |-> 73, a |-> 40]],
     income |-> [male_approved |-> QI(60000), female_approved |-> QI(59000),
                 male_denied |-> QI(45000), female_denied |-> QI(46000)],
     correct |-> 870,
     features |->
        [f \in DOMAIN DefaultDf.features |->
            CASE f = "age" -> Column(QI(42), QI(12), QI(0), QI(1))
              [] f = "income" -> Column(QI(55000), QI(29000), QI(0), QI(1))
              [] f = "credit_score" -> Column(QI(680), QI(80), QI(0), QI(1))
              [] OTHER -> Column(Q(29, 100), Q(16, 100), QI(0), QI(1))],
     columns |-> COLUMNS,
     near_boundary |-> 350]

\* Dataset B: the gender penalty lowers the female approvals; accuracy 85%;
\* the denied women earn more than the denied men.
generate_biased_dataset ==
    [generate_clean_dataset EXCEPT
        !.groups.gender.Female = [n |-> 480, a |-> 150],
        !.income.female_denied = QI(52000),
        !.correct = 850,
        !.features =
            [f \in DOMAIN DefaultDf.features |->
                Column(generate_clean_dataset.features[f].mean,
                       generate_clean_dataset.features[f].std, Q(3, 100), Q(4, 10))]]

\* Dataset C: credit scores, incomes and debt ratios shifted; accuracy 75%.
generate_drifted_dataset ==
    [generate_clean_dataset EXCEPT
        !.groups.gender.Female = [n |-> 480, a |-> 205],
        !.groups.gender.Male.a = 230,
        !.correct = 750,
        !.features =
            [f \in DOMAIN DefaultDf.features |->
                CASE f = "age" -> Column(QI(42), QI(12), Q(3, 100), Q(4, 10))
                  [] f = "income" -> Column(QI(47000), QI(24000), Q(12, 100), Q(1, 100000))
                  [] f = "credit_score" -> Column(QI(630), QI(80), Q(25, 100), Q(1, 100000))
                  [] OTHER -> Column(Q(35, 100), Q(19, 100), Q(14, 100), Q(1, 100000))],
        !.near_boundary = 450]

DatasetModes == {"clean", "biased", "drifted"}

\* get_dataset(mode), called with no other user of the RandomState.
get_dataset(mode) ==
    CASE mode = "clean" -> generate_clean_dataset
      [] mode = "biased" -> generate_biased_dataset
      [] mode = "drifted" -> generate_drifted_dataset

\* Mutant of get_baseline_dataset: another generator makes the baseline.
get_baseline_dataset_Biased == generate_biased_dataset

get_baseline_dataset == generate_clean_dataset

\* np.random.seed(...) of each generator.
SeedOf(mode) ==
    CASE mode = "clean" -> 42
      [] mode = "biased" -> 43
      [] mode = "drifted" -> 44

\* The calls a generator makes on the RandomState: its own seed (lines 60,
\* 117, 158), the seed of generate_base_features (14), six draws for the
\* base features (20-39), the noise (78) and the correct_mask (85); the
\* conditional boost of the clean generator (104) is taken with the last.
GeneratorCalls == <<"seed", "seed", "draw", "draw", "draw", "draw", "draw", "draw",
                    "draw", "draw">>

\* The RandomState after k calls of a generator that no one disturbed.
RngAfter(seed, k) ==
    [seed |-> seed,
     pos |-> Cardinality({i \in 1..k : GeneratorCalls[i] = "draw"})]

-----------------------------------------------------------------------------
(* The analyzers on a dataframe that may lack a column: df[col] raises     *)
(* KeyError for a column that is not there.                                *)

KeyError == [raised |-> "KeyError"]

Raised(x) == x = KeyError

\* The columns each analyzer subscripts the dataframe with.
BiasReads == {"gender", "prediction", "age", "income"}
DriftReads == {"age", "income", "credit_score", "debt_ratio", "prediction",
               "actual_outcome"}
\* Mutant of ExplainabilityReads: only the prediction column is subscripted.
ExplainabilityReads_OnlyPrediction == {"prediction"}

ExplainabilityReads == {"credit_score", "income", "debt_ratio", "employment_type",
                        "prediction"}

\* Mutant of MissingColumns: a missing column is never noticed.
MissingColumns_Ignored(reads, d) == {}

MissingColumns(reads, d) == reads \ d.columns

OrKeyError(reads, d, result) ==
    IF MissingColumns(reads, d) # {} THEN KeyError ELSE result

BiasAnalyzer(d) == OrKeyError(BiasReads, d, calculate_bias_risk_score(d))

\* b is the dataframe get_baseline_dataset() returned to the analyzer.
DriftAnalyzerOn(d, b) == OrKeyError(DriftReads, d, calculate_drift_risk_score(b, d))

DriftAnalyzer(d) == DriftAnalyzerOn(d, get_baseline_dataset)

ExplainabilityAnalyzer(d) ==
    OrKeyError(ExplainabilityReads, d, calculate_explainability_score(d))

\* Mutant of AfterAgeGroupBias: the age_group column is added to the
\* caller's dataframe.
AfterAgeGroupBias_InPlace(d) == [d EXCEPT !.columns = @ \cup {"age_group"}]

\* calculate_age_group_bias adds the age_group column to a copy (df.copy()):
\* the caller's dataframe after the call.
AfterAgeGroupBias(d) == d

\* The caller's dataframe after calculate_bias_risk_score: KeyError for a
\* missing gender or prediction is raised before calculate_age_group_bias.
AfterBias(d) ==
    IF MissingColumns({"gender", "prediction"}, d) # {} THEN d ELSE AfterAgeGroupBias(d)

generate_executive_summary(ai_risk_, bias, drift) ==
    [status |-> ai_risk_.status,
     score |-> round(ai_risk_.score, 0),
     concern |-> IF ai_risk_.status # "WARNING" THEN "none"
                 ELSE IF QLt(drift.drift_risk_score, bias.bias_risk_score) THEN "bias"
                 ELSE "drift"]

\* run_audit from line 98 on: the analyzers in turn, the composite score,
\* the recommendations and the compiled result; an analyzer's exception is
\* not caught.  The three details hold the analyzers' results, of which the
\* code copies the keys of the response schema.
RunAnalysesOn(d, b) ==
    LET bias == BiasAnalyzer(d)
        drift == DriftAnalyzerOn(AfterBias(d), b)
        explainability == ExplainabilityAnalyzer(AfterBias(d))
        risk == calculate_ai_risk_score(bias.bias_risk_score, drift.drift_risk_score,
                                        explainability.explainability_score)
    IN  IF Raised(bias) THEN bias
        ELSE IF Raised(drift) THEN drift
        ELSE IF Raised(explainability) THEN explainability
        ELSE [ai_risk_score |-> risk.score,
              risk_status |-> risk.status,
              risk_components |-> risk.components,
              bias_risk_score |-> bias.bias_risk_score,
              drift_risk_score |-> drift.drift_risk_score,
              explainability_score |-> explainability.explainability_score,
              bias_details |-> bias,
              drift_details |-> drift,
              explainability_details |-> explainability,
              recommendations |->
                  generate_all_recommendations(bias, drift, explainability, risk.score),
              executive_summary |-> generate_executive_summary(risk, bias, drift),
              dataset_stats |->
                  [total_records |-> Records(d),
                   approval_rate |-> round(Q(Approved(d), Records(d)), 3),
                   accuracy |-> round(Q(d.correct, Records(d)), 3)]]

\* The same with the baseline of an undisturbed get_baseline_dataset().
RunAnalyses(d) == RunAnalysesOn(d, get_baseline_dataset)

-----------------------------------------------------------------------------
(* SpecAnalyzers: the three analyzers called on one dataframe, each up to  *)
(* MaxCalls times and in any order, and the analyses of run_audit.         *)

MaxCalls == 2

\* One column at most is missing.
Schemas == {COLUMNS} \cup {COLUMNS \ {c} : c \in COLUMNS}

\* A drifted dataset with no woman and 300 men approved, 803 correct
\* predictions and 200 records near the decision boundary.
SevereDataset ==
    [generate_drifted_dataset EXCEPT !.groups.gender.Female.a = 0,
                                     !.groups.gender.Male.a = 300,
                                     !.correct = 803,
                                     !.near_boundary = 200]

AnalyzerDatasets ==
    {[d EXCEPT !.columns = c] :
        d \in {get_dataset(m) : m \in DatasetModes} \cup {DefaultDf, SevereDataset},
        c \in Schemas}

\* The RandomState as an earlier user left it.
RngStates == {RngAfter(SeedOf(m), k) : m \in DatasetModes, k \in {2, Len(GeneratorCalls)}}

InitAnalyzers ==
    /\ df \in AnalyzerDatasets
    /\ given_df = df
    /\ calls = [bias |-> <<>>, drift |-> <<>>, explainability |-> <<>>]
    /\ audit_result = None
    /\ rng \in RngStates
    /\ IdleRisk /\ IdleDI /\ IdleBias /\ IdleDrift /\ IdleRecs /\ IdleRun
    /\ age_records = None /\ IdleStore

CallBias ==
    /\ Len(calls.bias) < MaxCalls
    /\ calls' = [calls EXCEPT !.bias = Append(@, BiasAnalyzer(df))]
    /\ df' = AfterBias(df)
    /\ UNCHANGED <<riskVars, diVars, biasVars, driftVars, recVars, given_df, audit_result,
                   rng, runVars, age_records, storeVars>>

\* get_baseline_dataset() reseeds the RandomState and draws the clean dataset.
CallDrift ==
    /\ Len(calls.drift) < MaxCalls
    /\ calls' = [calls EXCEPT !.drift = Append(@, DriftAnalyzer(df))]
    /\ rng' = RngAfter(SeedOf("clean"), Len(GeneratorCalls))
    /\ UNCHANGED <<riskVars, df, diVars, biasVars, driftVars, recVars, given_df,
                   audit_result, runVars, age_records, storeVars>>

CallExplainability ==
    /\ Len(calls.explainability) < MaxCalls
    /\ calls' = [calls EXCEPT !.explainability = Append(@, ExplainabilityAnalyzer(df))]
    /\ UNCHANGED <<riskVars, df, diVars, biasVars, driftVars, recVars, given_df,
                   audit_result, rng, runVars, age_records, storeVars>>

RunAnalysesOnce ==
    /\ audit_result = None
    /\ audit_result' = RunAnalyses(df)
    /\ df' = AfterBias(df)
    /\ rng' = IF Raised(BiasAnalyzer(df)) THEN rng
              ELSE RngAfter(SeedOf("clean"), Len(GeneratorCalls))
    /\ UNCHANGED <<riskVars, diVars, biasVars, driftVars, recVars, given_df, calls,
                   runVars, age_records, storeVars>>

NextAnalyzers == CallBias \/ CallDrift \/ CallExplainability \/ RunAnalysesOnce

SpecAnalyzers == InitAnalyzers /\ [][NextAnalyzers]_vars

-----------------------------------------------------------------------------
(* SpecColumns: the explainability analyzer and the analyses of run_audit  *)
(* on dataframes with any set of columns and any share of records near the *)
(* decision boundary.                                                      *)

ColumnDatasets ==
    {[d EXCEPT !.columns = c] :
        d \in {get_dataset(m) : m \in DatasetModes}
               \cup {[DefaultDf EXCEPT !.near_boundary = k] : k \in 0..Records(DefaultDf)},
        c \in SUBSET COLUMNS}

InitColumns ==
    /\ df \in ColumnDatasets
    /\ given_df = df
    /\ calls = [bias |-> <<>>, drift |-> <<>>, explainability |-> <<>>]
    /\ audit_result = None
    /\ rng = RngAfter(SeedOf("clean"), Len(GeneratorCalls))
    /\ IdleRisk /\ IdleDI /\ IdleBias /\ IdleDrift /\ IdleRecs /\ IdleRun
    /\ age_records = None /\ IdleStore

NextColumns == CallExplainability \/ RunAnalysesOnce

SpecColumns == InitColumns /\ [][NextColumns]_vars

-----------------------------------------------------------------------------
(* run_audit invocations.  Each invocation makes its audit id, generates   *)
(* its dataset, analyses it, generates the baseline (inside the drift      *)
(* analyzer) and compiles its result.  The generators work on numpy's      *)
(* process-global RandomState, one call at a time; everything else an      *)
(* invocation does is local to it.                                         *)

MaxAudits == 2     \* invocations
MaxUuid == 2       \* values of uuid.uuid4().hex[:8]
MaxClock == 1      \* seconds the clock may advance
SampleNoise == 10  \* approvals and correct outcomes another sample may differ by

Audits == 1..MaxAudits

\* f"AUDIT-{utcnow:%Y%m%d%H%M%S}-{uuid4().hex[:8].upper()}"
AuditId(second, uuid8) == <<"AUDIT", second, uuid8>>

\* What a generator builds when some of its draws came from a RandomState
\* another invocation had reseeded or advanced: the same construction on
\* another sample, so the approvals and the correct outcomes may differ.
Resampled(d) ==
    {[d EXCEPT !.groups.gender.Female.a = @ + x, !.correct = @ + x] :
        x \in {0, SampleNoise}}

\* The seed of the generation an invocation is in.
CurrentSeed(a) == IF a.pc = "dataset" THEN SeedOf(a.mode) ELSE SeedOf("clean")

InitAudit ==
    /\ audits \in [Audits -> {[pc |-> "start", mode |-> m, audit_id |-> None, k |-> 0,
                               own |-> TRUE, df |-> None, baseline |-> None,
                               result |-> None] : m \in DatasetModes}]
    /\ clock = 0
    /\ rng = RngAfter(SeedOf("clean"), Len(GeneratorCalls))
    /\ IdleRisk /\ df = None /\ IdleDI /\ IdleBias /\ IdleDrift /\ IdleRecs
    /\ IdleAnalyzers /\ age_records = None /\ IdleStore

\* audit_id and timestamp (lines 91-92).
GenerateAuditId(p) ==
    /\ audits[p].pc = "start"
    /\ \E uuid8 \in 1..MaxUuid :
          audits' = [audits EXCEPT ![p].audit_id = AuditId(clock, uuid8),
                                   ![p].pc = "dataset"]
    /\ UNCHANGED <<riskVars, df, diVars, biasVars, driftVars, recVars, analyzerVars, rng,
                   clock, age_records, storeVars>>

\* One call of the running generator on the RandomState: np.random.seed, or
\* a draw.  A draw is the generator's own when the RandomState is where the
\* generator's earlier calls left it.
GeneratorCall(p) ==
    LET a == audits[p]
        call == GeneratorCalls[a.k + 1]
        own == IF call = "seed" THEN a.own
               ELSE a.own /\ rng = RngAfter(CurrentSeed(a), a.k)
        last == a.k + 1 = Len(GeneratorCalls)
        made == IF a.pc = "dataset" THEN get_dataset(a.mode) ELSE get_baseline_dataset
    IN  /\ a.pc \in {"dataset", "baseline"}
        /\ rng' = IF call = "seed" THEN [seed |-> CurrentSeed(a), pos |-> 0]
                  ELSE [rng EXCEPT !.pos = @ + 1]
        /\ IF ~last
           THEN audits' = [audits EXCEPT ![p].k = a.k + 1, ![p].own = own]
           ELSE \E d \in (IF own THEN {made} ELSE Resampled(made)) :
                   audits' =
                      [audits EXCEPT
                          ![p].k = 0,
                          ![p].own = TRUE,
                          ![p].df = IF a.pc = "dataset" THEN d ELSE a.df,
                          ![p].baseline = IF a.pc = "baseline" THEN d ELSE a.baseline,
                          ![p].pc = IF a.pc = "dataset" THEN "baseline" ELSE "compile"]
        /\ UNCHANGED <<riskVars, df, diVars, biasVars, driftVars, recVars, analyzerVars,
                       clock, age_records, storeVars>>

\* The analyses, the composite score, the recommendations and the compiled
\* result (lines 98-180), on the dataset and the baseline this invocation
\* generated.
CompileResult(p) ==
    /\ audits[p].pc = "compile"
    /\ audits' = [audits EXCEPT
                     ![p].result = RunAnalysesOn(audits[p].df, audits[p].baseline),
                     ![p].pc = "done"]
    /\ UNCHANGED <<riskVars, df, diVars, biasVars, driftVars, recVars, analyzerVars, rng,
                   clock, age_records, storeVars>>

NextAudit == \E p \in Audits : GenerateAuditId(p) \/ GeneratorCall(p) \/ CompileResult(p)

SpecAudit == InitAudit /\ [][NextAudit]_vars

-----------------------------------------------------------------------------
(* SpecAuditIds: run_audit invocations one after the other, while the      *)
(* clock advances.                                                         *)

\* run_audit, start to end, with no other invocation under way.
RunAudit(p) ==
    /\ audits[p].pc = "start"
    /\ \A q \in Audits : audits[q].pc \in {"start", "done"}
    /\ \E uuid8 \in 1..MaxUuid :
          audits' = [audits EXCEPT
                        ![p].audit_id = AuditId(clock, uuid8),
                        ![p].df = get_dataset(audits[p].mode),
                        ![p].baseline = get_baseline_dataset,
                        ![p].result = RunAnalyses(get_dataset(audits[p].mode)),
                        ![p].pc = "done"]
    /\ rng' = RngAfter(SeedOf("clean"), Len(GeneratorCalls))
    /\ UNCHANGED <<riskVars, df, diVars, biasVars, driftVars, recVars, analyzerVars,
                   clock, age_records, storeVars>>

\* A second passes.
Tick ==
    /\ clock < MaxClock
    /\ clock' = clock + 1
    /\ UNCHANGED <<riskVars, df, diVars, biasVars, driftVars, recVars, analyzerVars, rng,
                   audits, age_records, storeVars>>

NextAuditIds == Tick \/ \E p \in Audits : RunAudit(p)

SpecAuditIds == InitAudit /\ [][NextAuditIds]_vars

-----------------------------------------------------------------------------
(* main.py: the endpoints around the audit_results table.  The handlers    *)
(* are coroutines without an await: each runs to its end before the next   *)
(* request is handled.                                                     *)

\* The outcome of run_audit when it raises instead of returning.
Exception == [raised |-> "Exception"]

\* raise HTTPException(status_code=..., detail=...)
HTTPException(status_code) == [status_code |-> status_code, body |-> None]

\* run_audit(dataset_mode) at the given second, with the given uuid.  What
\* its lines 95-180 compute depends on dataset_mode alone; audit_result
\* holds it for each mode.
run_audit(dataset_mode, second, uuid8) ==
    [audit_id |-> AuditId(second, uuid8), timestamp |-> second,
     dataset_mode |-> dataset_mode] @@ audit_result[dataset_mode]

\* AuditResult(id=result["audit_id"], ...): the row of an audit (lines 91-104).
AuditRecord(result) ==
    [id |-> result.audit_id,
     timestamp |-> result.timestamp,
     dataset_mode |-> result.dataset_mode,
     ai_risk_score |-> result.ai_risk_score,
     risk_status |-> result.risk_status,
     bias_risk_score |-> result.bias_risk_score,
     drift_risk_score |-> result.drift_risk_score,
     explainability_score |-> result.explainability_score,
     bias_details |-> result.bias_details,
     drift_details |-> result.drift_details,
     recommendations |-> result.recommendations,
     executive_summary |-> result.executive_summary]

\* db.query(AuditResult).filter(AuditResult.id == audit_id).first()
First(table, audit_id) ==
    IF \E row \in table : row.id = audit_id
    THEN CHOOSE row \in table : row.id = audit_id
    ELSE None

\* Mutant of AddAndCommit: a row with the same primary key is replaced.
AddAndCommit_Replacing(table, audit_record) ==
    [raised |-> First(table, audit_record.id) # None,
     table |-> {row \in table : row.id # audit_record.id} \cup {audit_record}]

\* db.add(audit_record); db.commit(): id is the primary key, and the commit
\* of a second row with the same id raises IntegrityError and writes nothing.
AddAndCommit(table, audit_record) ==
    IF First(table, audit_record.id) # None
    THEN [raised |-> TRUE, table |-> table]
    ELSE [raised |-> FALSE, table |-> table \cup {audit_record}]

\* response_model=AuditResponse: the fields of the schema are kept
\* (ExplainabilityDetails: score, explanation, gaps).
AuditResponse(result) ==
    [result EXCEPT !.explainability_details =
        [score |-> @.explainability_score, explanation |-> @.explanation,
         gaps |-> @.gaps]]

\* start_audit (lines 86-112) when run_audit gave ran: the answer and the
\* table afterwards.
start_audit(table, ran) ==
    IF ran = Exception THEN [response |-> HTTPException(500), table |-> table]
    ELSE LET committed == AddAndCommit(table, AuditRecord(ran))
         IN  IF committed.raised
             THEN [response |-> HTTPException(500), table |-> committed.table]
             ELSE [response |-> [status_code |-> 200, body |-> AuditResponse(ran)], table |-> committed.table]

\* The dict get_audit_result rebuilds from a row (lines 128-156).
Reconstructed(audit) ==
    [audit_id |-> audit.id,
     timestamp |-> audit.timestamp,
     dataset_mode |-> audit.dataset_mode,
     ai_risk_score |-> audit.ai_risk_score,
     risk_status |-> audit.risk_status,
     risk_components |->
        [bias_contribution |-> QMul(audit.ai_risk_score, Q(4, 10)),
         drift_contribution |-> QMul(audit.ai_risk_score, Q(35, 100)),
         explainability_contribution |-> QMul(audit.ai_risk_score, Q(25, 100))],
     bias_risk_score |-> audit.bias_risk_score,
     drift_risk_score |-> audit.drift_risk_score,
     explainability_score |-> audit.explainability_score,
     bias_details |-> audit.bias_details,
     drift_details |-> audit.drift_details,
     explainability_details |->
        [score |-> audit.explainability_score,
         explanation |-> "See detailed audit for explainability analysis",
         gaps |-> <<>>],
     recommendations |-> audit.recommendations,
     executive_summary |-> audit.executive_summary,
     dataset_stats |-> [total_records |-> 1000, approval_rate |-> Q(5, 10),
                        accuracy |-> Q(85, 100)]]

\* get_audit_result (lines 122-156)
get_audit_result(table, audit_id) ==
    LET audit == First(table, audit_id)
    IN  IF audit = None THEN HTTPException(404) ELSE [status_code |-> 200, body |-> Reconstructed(audit)]

\* The PDF of generate_audit_report: the figures it prints.
generate_audit_report(audit_result_) ==
    [media_type |-> "application/pdf",
     audit_id |-> audit_result_.audit_id,
     ai_risk_score |-> audit_result_.ai_risk_score,
     risk_status |-> audit_result_.risk_status,
     risk_components |-> audit_result_.risk_components,
     recommendations |-> audit_result_.recommendations]

\* generate_report (lines 188-228): the dict it rebuilds has the risk
\* components of the three stored scores.
generate_report(table, audit_id) ==
    LET audit == First(table, audit_id)
    IN  IF audit = None THEN HTTPException(404)
        ELSE [status_code |-> 200, body |-> generate_audit_report(
                [Reconstructed(audit) EXCEPT !.risk_components =
                    [bias_contribution |-> QMul(audit.bias_risk_score, Q(4, 10)),
                     drift_contribution |-> QMul(audit.drift_risk_score, Q(35, 100)),
                     explainability_contribution |->
                        QMul(QSub(QI(100), audit.explainability_score), Q(25, 100))]])]

\* generate_quick_report (lines 238-272)
generate_quick_report(table, ran) ==
    IF ran = Exception THEN [response |-> HTTPException(500), table |-> table]
    ELSE LET committed == AddAndCommit(table, AuditRecord(ran))
         IN  IF committed.raised
             THEN [response |-> HTTPException(500), table |-> committed.table]
             ELSE [response |-> [status_code |-> 200, body |-> generate_audit_report(ran)], table |-> committed.table]

-----------------------------------------------------------------------------
(* SpecStore: requests to the four audit endpoints, one after the other,   *)
(* while the clock advances.  run_audit returns, or raises.                *)

MaxStored == 2     \* rows of the table

\* The audit ids a client may ask for.
AuditIds == {AuditId(second, uuid8) : second \in 0..MaxClock, uuid8 \in 1..MaxUuid}

\* What run_audit may give a handler now.
RunAuditOutcomes(dataset_mode) ==
    {run_audit(dataset_mode, clock, uuid8) : uuid8 \in 1..MaxUuid} \cup {Exception}

InitStore ==
    /\ store = {} /\ returned = <<>>
    /\ response = [endpoint |-> "none"]
    /\ clock = 0 /\ audits = None
    /\ rng = RngAfter(SeedOf("clean"), Len(GeneratorCalls))
    /\ audit_result = [dataset_mode \in DatasetModes |->
                          RunAnalyses(get_dataset(dataset_mode))]
    /\ given_df = None /\ calls = None
    /\ IdleRisk /\ df = None /\ IdleDI /\ IdleBias /\ IdleDrift /\ IdleRecs
    /\ age_records = None

\* A request to an endpoint that runs an audit and stores it.
Stored(endpoint, handled, ran) ==
    /\ store' = handled.table
    /\ response' = [endpoint |-> endpoint, run_audit |-> ran] @@ handled.response
    /\ returned' = IF handled.response.status_code = 200
                   THEN (ran.audit_id :> response') @@ returned
                   ELSE returned
    /\ UNCHANGED <<riskVars, df, diVars, biasVars, driftVars, recVars, analyzerVars, rng,
                   runVars, age_records>>

StartAudit ==
    /\ Cardinality(store) < MaxStored
    /\ \E dataset_mode \in DatasetModes : \E ran \in RunAuditOutcomes(dataset_mode) :
          Stored("start_audit", start_audit(store, ran), ran)

GenerateQuickReport ==
    /\ Cardinality(store) < MaxStored
    /\ \E dataset_mode \in DatasetModes : \E ran \in RunAuditOutcomes(dataset_mode) :
          Stored("generate_quick_report", generate_quick_report(store, ran), ran)

\* A request to an endpoint that reads the table.
Read(endpoint, audit_id, answer) ==
    /\ response' = [endpoint |-> endpoint, audit_id |-> audit_id] @@ answer
    /\ UNCHANGED <<riskVars, df, diVars, biasVars, driftVars, recVars, analyzerVars, rng,
                   runVars, age_records, store, returned>>

GetAuditResult ==
    \E audit_id \in AuditIds :
        Read("get_audit_result", audit_id, get_audit_result(store, audit_id))

GenerateReport ==
    \E audit_id \in AuditIds :
        Read("generate_report", audit_id, generate_report(store, audit_id))

NextStore == Tick \/ StartAudit \/ GenerateQuickReport \/ GetAuditResult \/ GenerateReport

SpecStore == InitStore /\ [][NextStore]_vars

-----------------------------------------------------------------------------
(* SpecAgeBins: calculate_age_group_bias on records of given ages.         *)

\* pd.cut(age, bins=[18, 30, 45, 60, 100], labels=AGE_LABELS): the bins are
\* open on the left and closed on the right (right=True, include_lowest=
\* False); an age outside every bin gets NaN.
cut(age) ==
    IF 18 < age /\ age <= 30 THEN "18-30"
    ELSE IF 30 < age /\ age <= 45 THEN "31-45"
    ELSE IF 45 < age /\ age <= 60 THEN "46-60"
    ELSE IF 60 < age /\ age <= 100 THEN "60+"
    ELSE "NaN"

RECURSIVE Total(_, _, _)
Total(records, ages, field) ==
    IF ages = {} THEN 0
    ELSE LET age == CHOOSE x \in ages : TRUE
         IN  records[age][field] + Total(records, ages \ {age}, field)

\* df_copy.groupby("age_group"): the records of each label; records whose
\* age_group is NaN belong to no group.
GroupByAgeGroup(records) ==
    [b \in DOMAIN DefaultDf.age_group |->
        LET ages == {age \in DOMAIN records : cut(age) = b}
        IN  [n |-> Total(records, ages, "n"), a |-> Total(records, ages, "a")]]

\* The ages at the edges of the bins.
EdgeAges == {18, 19, 30, 31, 45, 46, 60, 61, 100}

MaxPerAge == 1    \* records of one age

InitAgeBins ==
    /\ age_records \in [EdgeAges -> Stats(0..MaxPerAge)]
    /\ \E age \in EdgeAges : age > 18 /\ age_records[age].n > 0
    /\ IdleStore
    /\ df = None /\ protected_col = None /\ di_result = None /\ age_result = None
    /\ IdleRisk /\ IdleBias /\ IdleDrift /\ IdleRecs /\ IdleAnalyzers /\ IdleRun
    /\ rng = None

\* calculate_age_group_bias(df) on the dataframe of these records.
CutAndCalculateAgeGroupBias ==
    /\ age_records # None /\ age_result = None
    /\ df' = [DefaultDf EXCEPT !.age_group = GroupByAgeGroup(age_records)]
    /\ age_result' = calculate_age_group_bias(df')
    /\ UNCHANGED <<riskVars, protected_col, di_result, biasVars, driftVars, recVars,
                   analyzerVars, rng, runVars, age_records, storeVars>>

NextAgeBins == CutAndCalculateAgeGroupBias

SpecAgeBins == InitAgeBins /\ [][NextAgeBins]_vars

-----------------------------------------------------------------------------
(* Claims about calculate_ai_risk_score (SpecRisk)                         *)

\* 0.40*bias + 0.35*drift + 0.25*(100 - explainability), clamped to [0,100],
\* written out from the documented formula.
ClampedComposite(b, d, e) ==
    LET v == QAdd(QAdd(QMul(Q(2, 5), b), QMul(Q(7, 20), d)),
                  QMul(Q(1, 4), QSub(QI(100), e)))
    IN  IF QLt(v, QI(0)) THEN QI(0) ELSE IF QLt(QI(100), v) THEN QI(100) ELSE v

\* C1: the returned status and the returned one-decimal score agree on the
\* bands: PASS iff score <= 40, WARNING iff 40 < score <= 70, FAIL iff
\* score > 70.
C1_StatusAgreesWithScore ==
    ai_risk # None =>
        /\ (ai_risk.status = "PASS") <=> QLe(ai_risk.score, QI(40))
        /\ (ai_risk.status = "WARNING") <=>
              (QLt(QI(40), ai_risk.score) /\ QLe(ai_risk.score, QI(70)))
        /\ (ai_risk.status = "FAIL") <=> QLt(QI(70), ai_risk.score)

\* C2 as stated: the returned score is the weighted sum clamped to [0,100]
\* (and 72.0, 10.0, 90.0 give 34.8 and PASS).
C2_ScoreIsClampedComposite ==
    ai_risk # None =>
        ai_risk.score = ClampedComposite(bias_score, drift_score, explainability_score)

\* C2 as amended: the returned score is the clamped weighted sum rounded to
\* one decimal place (a multiple of 0.1 at most 0.05 away from it), so it is
\* within [0,100]; 72.0, 10.0, 90.0 give 34.8 and PASS.
C2_ScoreIsRoundedClampedComposite ==
    ai_risk # None =>
        LET v == ClampedComposite(bias_score, drift_score, explainability_score)
        IN  /\ 10 % ai_risk.score.d = 0
            /\ QLe(QAbs(QSub(ai_risk.score, v)), Q(1, 20))
            /\ QLe(QI(0), ai_risk.score) /\ QLe(ai_risk.score, QI(100))
            /\ (bias_score = QI(72) /\ drift_score = QI(10) /\ explainability_score = QI(90))
                  => (ai_risk.score = Q(348, 10) /\ ai_risk.status = "PASS")

\* C2 witness: a call whose weighted sum (120 + 35 + 25 = 180) is clamped.
C2_Witness ==
    /\ ai_risk # None
    /\ bias_score = QI(300) /\ drift_score = QI(100) /\ explainability_score = QI(0)
    /\ ai_risk.score = QI(100)

-----------------------------------------------------------------------------
(* Claims about the bias analyzer (SpecDI, SpecBias)                       *)

gender_stats == df.groups.gender

\* Both gender groups are present and the Male approval rate is > 0.
MaleRatePositive ==
    gender_stats.Male.n > 0 /\ gender_stats.Male.a > 0 /\ gender_stats.Female.n > 0

\* The dataset with k approved Female records turned into denied ones.
FewerFemaleApprovals(k) ==
    [df EXCEPT !.groups.gender.Female.a = gender_stats.Female.a - k]

\* The exact ratio Female rate / Male rate of a dataset with Male rate > 0.
ExactGenderRatio(d) ==
    Q(d.groups.gender.Female.a * d.groups.gender.Male.n,
      d.groups.gender.Female.n * d.groups.gender.Male.a)

\* C4: the bias_risk_score returned by calculate_bias_risk_score lies in
\* [0,100], whatever the gender ratio (also above 1), the age ratio and the
\* proxy flag.
C4_BiasScoreInRange ==
    bias_result # None =>
        /\ QLe(QI(0), bias_result.bias_risk_score)
        /\ QLe(bias_result.bias_risk_score, QI(100))

\* C4 witness: gender ratio 0, age ratio 0 and the proxy flag set, so that
\* the weighted sum (126 + 25 + 3) exceeds 100 before the clamp.
C4_Witness ==
    /\ bias_result # None
    /\ bias_result.gender_di.di_ratio = QI(0)
    /\ bias_result.age_bias.di_ratio = QI(0)
    /\ bias_result.income_proxy.proxy_detected
    /\ bias_locals.gender_risk = QI(210)
    /\ bias_result.bias_risk_score = QI(100)

col_stats == df.groups[protected_col]

present == {g \in DOMAIN col_stats : col_stats[g].n > 0}

SameRate(g, h) == col_stats[g].a * col_stats[h].n = col_stats[h].a * col_stats[g].n

\* The privileged and the unprivileged group have the same approval rate:
\* Male and Female for gender, the max-rate and min-rate groups otherwise.
EqualGroupRates ==
    IF protected_col = "gender"
    THEN {"Male", "Female"} \subseteq present /\ SameRate("Male", "Female")
    ELSE present # {} /\ \A g, h \in present : SameRate(g, h)

\* The privileged group's approval rate is 0 (an absent Male group counts
\* as rate 0 for gender).
PrivilegedRateZero ==
    IF protected_col = "gender"
    THEN "Male" \notin present \/ col_stats.Male.a = 0
    ELSE present # {} /\ \A g \in present : col_stats[g].a = 0

\* C6: equal approval rates of the privileged and the unprivileged group
\* (any common value, 0 included, any dataset size) give di_ratio 1.0 and no
\* violation.
C6_EqualRatesGiveOne ==
    (di_result # None /\ EqualGroupRates) =>
        (di_result.di_ratio = QI(1) /\ ~di_result.violation)

\* C6 witness: three records, Male 0/1 and Female 0/2 (common rate 0).
C6_Witness ==
    /\ di_result # None /\ protected_col = "gender"
    /\ col_stats.Male = [n |-> 1, a |-> 0] /\ col_stats.Female = [n |-> 2, a |-> 0]
    /\ col_stats.Other.n = 0
    /\ di_result.di_ratio = QI(1)

\* C7: a privileged approval rate of 0, or fewer than 2 groups, is answered
\* with di_ratio 1.0 and no violation (a result, not an error).
C7_DegenerateInputsGiveOne ==
    (di_result # None /\ (PrivilegedRateZero \/ Cardinality(present) < 2)) =>
        (di_result.di_ratio = QI(1) /\ ~di_result.violation)

\* C7 witness: Male 0/2 (privileged rate 0) against Female 1/1.
C7_Witness ==
    /\ di_result # None /\ protected_col = "gender"
    /\ col_stats.Male = [n |-> 2, a |-> 0] /\ col_stats.Female = [n |-> 1, a |-> 1]
    /\ di_result.di_ratio = QI(1) /\ ~di_result.violation

\* C8: in every result of calculate_disparate_impact and of
\* calculate_age_group_bias the violation flag is true iff the di_ratio of the
\* same result is < 0.8.
C8_FlagMatchesReportedRatio ==
    /\ di_result # None => (di_result.violation <=> QLt(di_result.di_ratio, Q(8, 10)))
    /\ age_result # None => (age_result.violation <=> QLt(age_result.di_ratio, Q(8, 10)))

\* C9: when the gender violation flag is true the gender risk is
\* 50 + (0.8 - di_ratio) * 200 (>= 50), when it is false the gender risk is
\* max(0, (1 - di_ratio) * 20) (<= 4); Male 0.60 and Female 0.40 give
\* di_ratio 0.667, a violation and gender risk 76.6.
C9_GenderRiskFollowsFlag ==
    bias_result # None =>
        LET di == bias_result.gender_di.di_ratio
            above == QMul(QSub(QI(1), di), QI(20))
        IN  /\ bias_result.gender_di.violation =>
                  /\ bias_locals.gender_risk = QAdd(QI(50), QMul(QSub(Q(8, 10), di), QI(200)))
                  /\ QLe(QI(50), bias_locals.gender_risk)
            /\ ~bias_result.gender_di.violation =>
                  /\ bias_locals.gender_risk = (IF QLt(above, QI(0)) THEN QI(0) ELSE above)
                  /\ QLe(bias_locals.gender_risk, QI(4))
            /\ (gender_stats.Male = [n |-> 5, a |-> 3]
                  /\ gender_stats.Female = [n |-> 5, a |-> 2]) =>
                  /\ di = Q(667, 1000) /\ bias_result.gender_di.violation
                  /\ bias_locals.gender_risk = Q(766, 10)

-----------------------------------------------------------------------------
(* Claims about the drift analyzer (SpecDrift)                             *)

InBand(x, lo, hi) == QLe(QI(lo), x) /\ QLe(x, QI(hi))

\* C3: the drift_risk_score returned by calculate_drift_risk_score lies in
\* [0,100], each part within its band: feature part in [0,40], accuracy part
\* in [0,40], prediction part in [0,20].
C3_DriftScoreInRange ==
    drift_result # None =>
        /\ InBand(drift_result.drift_risk_score, 0, 100)
        /\ InBand(drift_locals.feature_drift_score, 0, 40)
        /\ InBand(drift_locals.accuracy_drop_score, 0, 40)
        /\ InBand(drift_locals.prediction_shift_score, 0, 20)

-----------------------------------------------------------------------------
(* Claims about the recommendation generator (SpecRecs)                    *)

\* Critical(0) < High(1) < Moderate(2) < Low(3)
RankOf(r) ==
    IF r.severity = "Critical" THEN 0
    ELSE IF r.severity = "High" THEN 1
    ELSE IF r.severity = "Moderate" THEN 2
    ELSE 3

\* C10: the list returned by generate_all_recommendations is sorted by
\* severity rank: the rank never decreases from one element to the next.
C10_SortedBySeverity ==
    pc = "return" =>
        \A i \in 1..(Len(recommendations) - 1) :
            RankOf(recommendations[i]) <= RankOf(recommendations[i + 1])

\* C10 witness: the Moderate BIAS_004 was collected before the Critical
\* DRIFT_001 and the High EXPLAIN_001, and is returned after both.
C10_Witness ==
    /\ pc = "return"
    /\ \E i, j, k \in 1..Len(recommendations) :
          /\ i < k /\ j < k
          /\ recommendations[i].id = "DRIFT_001"
          /\ recommendations[j].id = "EXPLAIN_001"
          /\ recommendations[k].id = "BIAS_004"

\* The order in which generate_all_recommendations collects the rules.
CollectionOrder ==
    <<"GENERAL_001", "BIAS_001", "BIAS_002", "BIAS_003", "BIAS_004",
      "DRIFT_001", "DRIFT_002", "DRIFT_003", "DRIFT_004",
      "EXPLAIN_001", "EXPLAIN_002", "EXPLAIN_003", "GENERAL_002">>

CollectionIndex(r) == CHOOSE i \in 1..Len(CollectionOrder) : CollectionOrder[i] = r.id

\* C11: the severity sort is stable: two returned recommendations of equal
\* severity stand in the order of collection (bias rules, then drift rules,
\* then explainability rules, an appended GENERAL_002 last of the Moderate).
C11_SortIsStable ==
    pc = "return" =>
        \A i, j \in 1..Len(recommendations) :
            (i < j /\ RankOf(recommendations[i]) = RankOf(recommendations[j]))
                => CollectionIndex(recommendations[i]) < CollectionIndex(recommendations[j])

\* C11 witness: four Moderate items of the four categories are returned
\* after a High item that was collected after the first of them.
C11_Witness ==
    /\ pc = "return"
    /\ \E i \in 1..(Len(recommendations) - 4) :
          /\ recommendations[i].id = "EXPLAIN_001"
          /\ recommendations[i + 1].id = "BIAS_004"
          /\ recommendations[i + 2].id = "DRIFT_004"
          /\ recommendations[i + 3].id = "EXPLAIN_002"
          /\ recommendations[Len(recommendations)].id = "GENERAL_002"

HasId(id) == \E i \in 1..Len(recommendations) : recommendations[i].id = id

\* C12: GENERAL_001 is returned iff ai_risk_score > 70 and is then the first
\* element; GENERAL_002 is returned iff 50 < ai_risk_score <= 70; never both,
\* and neither when ai_risk_score <= 50.
C12_OneOverallRecommendation ==
    pc = "return" =>
        /\ HasId("GENERAL_001") <=> QLt(QI(70), ai_risk_score)
        /\ HasId("GENERAL_001") => recommendations[1].id = "GENERAL_001"
        /\ HasId("GENERAL_002") <=> (QLt(QI(50), ai_risk_score) /\ QLe(ai_risk_score, QI(70)))
        /\ ~(HasId("GENERAL_001") /\ HasId("GENERAL_002"))
        /\ QLe(ai_risk_score, QI(50)) => ~HasId("GENERAL_001") /\ ~HasId("GENERAL_002")

\* C12 witness: GENERAL_001 is returned ahead of the Critical BIAS_001 and
\* DRIFT_001 that were collected before it was inserted.
C12_Witness ==
    /\ pc = "return"
    /\ Len(recommendations) >= 3
    /\ recommendations[1].id = "GENERAL_001"
    /\ recommendations[2].id = "BIAS_001"
    /\ HasId("DRIFT_001")

-----------------------------------------------------------------------------
(* Claims about the analyzers on one dataframe (SpecAnalyzers)             *)

ANALYZERS == {"bias", "drift", "explainability"}

NoneRaised == \A a \in ANALYZERS : \A i \in 1..Len(calls[a]) : ~Raised(calls[a][i])

ColumnsRead(a) ==
    CASE a = "bias" -> BiasReads
      [] a = "drift" -> DriftReads
      [] a = "explainability" -> ExplainabilityReads \cup {"age"}

Lacks(columns) == ~(columns \subseteq given_df.columns)

\* C16: a dataset missing a column an analyzer reads makes that analyzer
\* raise instead of returning a default or partial score, and run_audit
\* raises too instead of returning a result.
C16_MissingColumnIsFatal ==
    calls # None =>
        /\ \A a \in ANALYZERS :
              Lacks(ColumnsRead(a)) => \A i \in 1..Len(calls[a]) : Raised(calls[a][i])
        /\ (audit_result # None /\ \E a \in ANALYZERS : Lacks(ColumnsRead(a)))
              => Raised(audit_result)

\* The columns the explainability analyzer only looks for in df.columns.
CountedWhenPresent == {"age", "gender", "customer_id", "actual_outcome"}

\* C16, amended: a missing column that an analyzer subscripts makes it raise,
\* and run_audit raises whenever one of its analyzers does; a missing age,
\* gender, customer_id or actual_outcome does not make the explainability
\* analyzer raise: it returns a result with lower coverage figures.
C16_SubscriptedColumnIsFatal ==
    calls # None =>
        /\ \A i \in 1..Len(calls.bias) : Raised(calls.bias[i]) <=> Lacks(BiasReads)
        /\ \A i \in 1..Len(calls.drift) : Raised(calls.drift[i]) <=> Lacks(DriftReads)
        /\ \A i \in 1..Len(calls.explainability) :
              /\ Raised(calls.explainability[i]) <=> Lacks(ExplainabilityReads)
              /\ (~Lacks(ExplainabilityReads) /\ Lacks(CountedWhenPresent)) =>
                    \/ QLt(calls.explainability[i].feature_coverage.documentation_coverage,
                           QI(100))
                    \/ QLt(calls.explainability[i].audit_trail.total_coverage, QI(100))
        /\ audit_result # None =>
              (Raised(audit_result)
                  <=> (Lacks(BiasReads) \/ Lacks(DriftReads) \/ Lacks(ExplainabilityReads)))

\* C16 witness: employment_type is missing; the bias and drift analyzers
\* have returned, the explainability analyzer and run_audit have raised.
C16_Witness ==
    /\ calls # None
    /\ "employment_type" \notin given_df.columns
    /\ Len(calls.bias) > 0 /\ ~Raised(calls.bias[1])
    /\ Len(calls.drift) > 0 /\ ~Raised(calls.drift[1])
    /\ Len(calls.explainability) > 0 /\ Raised(calls.explainability[1])
    /\ Raised(audit_result)

-----------------------------------------------------------------------------
(* Claims about run_audit invocations (SpecAudit, SpecAuditIds)            *)

\* What run_audit(mode) returns when it runs alone.
Alone(mode) == RunAnalyses(get_dataset(mode))

\* C14: in every interleaving of concurrent run_audit invocations, each
\* invocation returns the component scores, the composite score, the status
\* and the recommendations it returns when run alone.
C14_ParallelAuditsAsAlone ==
    \A p \in Audits :
        audits[p].pc = "done" =>
            LET r == audits[p].result
                alone == Alone(audits[p].mode)
            IN  /\ r.bias_risk_score = alone.bias_risk_score
                /\ r.drift_risk_score = alone.drift_risk_score
                /\ r.explainability_score = alone.explainability_score
                /\ r.ai_risk_score = alone.ai_risk_score
                /\ r.risk_status = alone.risk_status
                /\ r.recommendations = alone.recommendations

\* C15: no two run_audit invocations tag their results with the same
\* audit_id.
C15_AuditIdsUnique ==
    \A p, q \in Audits :
        (p # q /\ audits[p].pc = "done" /\ audits[q].pc = "done")
            => audits[p].audit_id # audits[q].audit_id

-----------------------------------------------------------------------------
(* Claims about the age buckets (SpecAgeBins)                              *)

\* The bins as documented: [18,30], [31,45], [46,60], [61,100].
DocumentedBin(b) ==
    CASE b = "18-30" -> 18..30
      [] b = "31-45" -> 31..45
      [] b = "46-60" -> 46..60
      [] b = "60+" -> 61..100

\* C17: calculate_age_group_bias counts every record whose age is in 18..100
\* in exactly one bucket, that of the bin [18,30], [31,45], [46,60] or
\* [61,100] its age lies in: no such record is left out of the approval
\* rates.
C17_EveryAgeInItsBucket ==
    age_result # None =>
        /\ \A b \in DOMAIN df.age_group :
              /\ df.age_group[b].n = Total(age_records, EdgeAges \cap DocumentedBin(b), "n")
              /\ df.age_group[b].a = Total(age_records, EdgeAges \cap DocumentedBin(b), "a")
        /\ \A b \in DOMAIN df.age_group :
              df.age_group[b].n > 0 =>
                  age_result.approval_rates[b] =
                      round(Q(Total(age_records, EdgeAges \cap DocumentedBin(b), "a"),
                              Total(age_records, EdgeAges \cap DocumentedBin(b), "n")), 3)

-----------------------------------------------------------------------------
(* Claims about the roles of the groups (SpecDI)                           *)

\* Female approval rate > Male approval rate > 0, both groups present.
FemaleRateExceedsMaleRate ==
    /\ protected_col = "gender"
    /\ df.groups.gender.Male.n > 0 /\ df.groups.gender.Male.a > 0
    /\ df.groups.gender.Female.n > 0
    /\ df.groups.gender.Female.a * df.groups.gender.Male.n
          > df.groups.gender.Male.a * df.groups.gender.Female.n

\* The extreme approval rates over the groups with records.
MaxGroupRate == SeriesMax({Rate(col_stats[g]) : g \in present})
MinGroupRate == SeriesMin({Rate(col_stats[g]) : g \in present})

-----------------------------------------------------------------------------
(* Claims about the violations list (SpecBias)                             *)

\* The entries of the returned violations list with the given type.
ViolationsOfType(type) ==
    SelectSeq(bias_result.violations, LAMBDA v : v.type = type)

\* C19: the violations list holds one entry per sub-check that fired and
\* none for one that did not: a Gender Disparate Impact entry iff the gender
\* violation flag is true, Critical iff its DI value < 0.7 and High iff
\* 0.7 <= DI < 0.8; a Moderate Age Group Disparate Impact entry iff the age
\* violation flag is true; a Moderate Income Proxy Bias entry iff the proxy
\* flag is true; total_violations is the length of the list.
C19_ViolationsMatchSubChecks ==
    bias_result # None =>
        LET gender == ViolationsOfType("Gender Disparate Impact")
            age == ViolationsOfType("Age Group Disparate Impact")
            proxy == ViolationsOfType("Income Proxy Bias")
        IN  /\ Len(gender) = (IF bias_result.gender_di.violation THEN 1 ELSE 0)
            /\ \A i \in 1..Len(gender) :
                  /\ gender[i].severity = "Critical" <=> QLt(gender[i].value, Q(7, 10))
                  /\ gender[i].severity = "High" <=>
                        (QLe(Q(7, 10), gender[i].value) /\ QLt(gender[i].value, Q(8, 10)))
            /\ Len(age) = (IF bias_result.age_bias.violation THEN 1 ELSE 0)
            /\ \A i \in 1..Len(age) : age[i].severity = "Moderate"
            /\ Len(proxy) = (IF bias_result.income_proxy.proxy_detected THEN 1 ELSE 0)
            /\ \A i \in 1..Len(proxy) : proxy[i].severity = "Moderate"
            /\ Len(bias_result.violations) = Len(gender) + Len(age) + Len(proxy)
            /\ bias_result.total_violations = Len(bias_result.violations)

-----------------------------------------------------------------------------
(* Claims about the accuracy drift (SpecDrift)                             *)

\* C20: calculate_accuracy_drift compares the current accuracy with the
\* baseline 0.87: the reported accuracy_drop is 0.87 - current, and
\* significant_drop is true iff the reported accuracy_drop > 0.05; a current
\* accuracy of 0.75 gives accuracy_drop 0.12, about 13.79 percent, and a
\* significant drop.
C20_SignificantIffReportedDropAbove5 ==
    drift_result # None =>
        LET accuracy_drift == drift_result.accuracy_drift
        IN  /\ accuracy_drift.baseline_accuracy = Q(87, 100)
            /\ accuracy_drift.current_accuracy = round(Q(df.correct, Records(df)), 3)
            /\ accuracy_drift.accuracy_drop =
                  QSub(Q(87, 100), accuracy_drift.current_accuracy)
            /\ accuracy_drift.significant_drop
                  <=> QLt(Q(5, 100), accuracy_drift.accuracy_drop)
            /\ accuracy_drift.current_accuracy = Q(75, 100) =>
                  /\ accuracy_drift.accuracy_drop = Q(12, 100)
                  /\ QLe(QAbs(QSub(accuracy_drift.accuracy_drop_percent, Q(1379, 100))),
                         Q(5, 100))
                  /\ accuracy_drift.significant_drop

-----------------------------------------------------------------------------
(* Claims about the drift score and its severity (SpecDrift)               *)

\* The band of a drift score: Low below 20, Moderate from 20, High from 40,
\* Critical from 60.
BandOf(s) ==
    IF QLt(s, QI(20)) THEN "Low"
    ELSE IF QLt(s, QI(40)) THEN "Moderate"
    ELSE IF QLt(s, QI(60)) THEN "High"
    ELSE "Critical"

\* C21: in every result of calculate_drift_risk_score the severity is the band
\* of the returned drift_risk_score.
C21_SeverityMatchesScore ==
    drift_result # None =>
        drift_result.severity = BandOf(drift_result.drift_risk_score)

\* The features of df whose test has a p-value below 0.05.
SignificantFeatures ==
    {f \in DOMAIN df.features : QLt(df.features[f].ks.p_value, Q(5, 100))}

\* C22: drifted_features names exactly the features among age, income,
\* credit_score and debt_ratio whose test has p < 0.05, each once;
\* features_with_drift is its length and the feature part of the score is
\* features_with_drift / 4 * 40.
C22_DriftedFeaturesAreTheFlagged ==
    drift_result # None =>
        LET listed == drift_result.drifted_features
        IN  /\ {listed[i].feature : i \in 1..Len(listed)} = SignificantFeatures
            /\ SignificantFeatures \subseteq {"age", "income", "credit_score", "debt_ratio"}
            /\ \A i, k \in 1..Len(listed) : listed[i].feature = listed[k].feature => i = k
            /\ drift_result.features_with_drift = Len(listed)
            /\ drift_locals.feature_drift_score = QI(10 * Cardinality(SignificantFeatures))

\* Two of the four features are flagged.
C22_Witness ==
    /\ drift_result # None
    /\ Len(drift_result.drifted_features) = 2
    /\ Cardinality({f \in DOMAIN df.features : df.features[f] = Borderline}) = 1

-----------------------------------------------------------------------------
(* Claims about the explainability analyzer (SpecColumns)                  *)

\* The results calculate_explainability_score returned so far.
ExplainabilityResultsReturned ==
    {calls.explainability[i] : i \in 1..Len(calls.explainability)} \ {KeyError}

\* 0.4 * documentation_coverage + 0.35 * clarity_score + 0.25 * total_coverage
WeightedCoverage(r) ==
    QAdd(QAdd(QMul(Q(4, 10), r.feature_coverage.documentation_coverage),
              QMul(Q(35, 100), r.transparency.clarity_score)),
         QMul(Q(25, 100), r.audit_trail.total_coverage))

\* The gaps are reported iff documentation_coverage < 80, clarity_score < 60,
\* total_coverage < 90, and nothing else is reported.
GapsAsDocumented(r) ==
    /\ In("Feature importance documentation incomplete", r.gaps)
            <=> QLt(r.feature_coverage.documentation_coverage, QI(80))
    /\ In("Decision boundaries are unclear", r.gaps)
            <=> QLt(r.transparency.clarity_score, QI(60))
    /\ In("Audit trail coverage is insufficient", r.gaps)
            <=> QLt(r.audit_trail.total_coverage, QI(90))
    /\ Elements(r.gaps) \subseteq {"Feature importance documentation incomplete",
                                    "Decision boundaries are unclear",
                                    "Audit trail coverage is insufficient"}

\* C23 as stated: the gaps are as documented, explainability_score equals the
\* weighted sum of the three coverages and lies in [0, 100].
C23_ScoreIsWeightedSum ==
    \A r \in ExplainabilityResultsReturned :
        /\ GapsAsDocumented(r)
        /\ r.explainability_score = WeightedCoverage(r)
        /\ QLe(QI(0), r.explainability_score) /\ QLe(r.explainability_score, QI(100))

\* C23, amended: the gaps are as documented, explainability_score equals the
\* weighted sum of the three reported coverages rounded to one decimal and
\* lies in [0, 100].
C23_ScoreIsRoundedWeightedSum ==
    \A r \in ExplainabilityResultsReturned :
        /\ GapsAsDocumented(r)
        /\ r.explainability_score = round(WeightedCoverage(r), 1)
        /\ QLe(QI(0), r.explainability_score) /\ QLe(r.explainability_score, QI(100))

\* A result with two gaps whose weighted sum has more than one decimal.
C23_Witness ==
    \E r \in ExplainabilityResultsReturned :
        /\ Len(r.gaps) = 2
        /\ r.explainability_score # WeightedCoverage(r)

\* C30: whenever calculate_explainability_score returns a result,
\* documentation_coverage is at least 80 and the gap 'Feature importance
\* documentation incomplete' is not reported; no run_audit result holds the
\* recommendation EXPLAIN_002.
C30_FeatureDocumentationNeverIncomplete ==
    /\ \A r \in ExplainabilityResultsReturned :
            /\ QLe(QI(80), r.feature_coverage.documentation_coverage)
            /\ ~In("Feature importance documentation incomplete", r.gaps)
    /\ (audit_result # None /\ ~Raised(audit_result)) =>
            \A i \in 1..Len(audit_result.recommendations) :
                audit_result.recommendations[i].id # "EXPLAIN_002"

\* A result for a dataframe without the age column: coverage 80.
C30_Witness ==
    /\ "age" \notin given_df.columns
    /\ \E r \in ExplainabilityResultsReturned :
            r.feature_coverage.documentation_coverage = QI(80)

-----------------------------------------------------------------------------
(* Claims about the ids of the recommendations (SpecRecs)                  *)

\* C24: no two recommendations of the list generate_all_recommendations
\* returns have the same id.
C24_NoTwoWithTheSameId ==
    pc = "return" =>
        \A i, k \in 1..Len(recommendations) :
            recommendations[i].id = recommendations[k].id => i = k

\* Rules of the three generators and the overall rule fired together, on a
\* result with two violations and two drifted features.
C24_Witness ==
    /\ pc = "return"
    /\ Len(bias_result.violations) = 2 /\ Len(drift_result.drifted_features) = 2
    /\ \A c \in {"Bias", "Drift", "Explainability", "Overall"} :
            \E i \in 1..Len(recommendations) : recommendations[i].category = c
    /\ Len(recommendations) >= 8

-----------------------------------------------------------------------------
(* Claims about the verdict and the overall recommendation (SpecAnalyzers) *)

-----------------------------------------------------------------------------
(* Claims about the drift recommendations (SpecDrift)                      *)

\* C26: for a result of severity Critical generate_drift_recommendations
\* includes DRIFT_001, and for a result of severity Low it returns no item
\* of severity Critical.
C26_CriticalDriftIsRecommended ==
    (drift_result # None /\ pc = "return") =>
        /\ drift_result.severity = "Critical" =>
               \E i \in 1..Len(recommendations) : recommendations[i].id = "DRIFT_001"
        /\ drift_result.severity = "Low" =>
               \A i \in 1..Len(recommendations) : recommendations[i].severity # "Critical"

-----------------------------------------------------------------------------
(* Claims about the audit store (SpecStore)                                *)

\* C27: get_audit_result answers, for an audit start_audit stored, the same
\* ai_risk_score, risk_status, component scores and risk_components as
\* start_audit answered.
C27_StoredAuditReadsBackTheSame ==
    (/\ response.endpoint = "get_audit_result" /\ response.status_code = 200
     /\ response.audit_id \in DOMAIN returned
     /\ returned[response.audit_id].endpoint = "start_audit") =>
        LET started == returned[response.audit_id].body
            read == response.body
        IN  /\ read.ai_risk_score = started.ai_risk_score
            /\ read.risk_status = started.risk_status
            /\ read.bias_risk_score = started.bias_risk_score
            /\ read.drift_risk_score = started.drift_risk_score
            /\ read.explainability_score = started.explainability_score
            /\ read.risk_components = started.risk_components

\* The scores and the status alone do read back the same.
ScoresReadBackTheSame ==
    (/\ response.endpoint = "get_audit_result" /\ response.status_code = 200
     /\ response.audit_id \in DOMAIN returned
     /\ returned[response.audit_id].endpoint = "start_audit") =>
        LET started == returned[response.audit_id].body
            read == response.body
        IN  /\ read.ai_risk_score = started.ai_risk_score
            /\ read.risk_status = started.risk_status
            /\ read.bias_risk_score = started.bias_risk_score
            /\ read.drift_risk_score = started.drift_risk_score
            /\ read.explainability_score = started.explainability_score

\* C28: the table changes only in a request whose run_audit returned and that
\* is answered 200; a start_audit whose run_audit raised is answered 500 and
\* leaves the table as it was; get_audit_result and generate_report answer
\* 404 and leave the table as it was for an id no answered start_audit or
\* generate_quick_report stored.
C28_StoreWrittenOnlyAfterRunAudit ==
    [][/\ store' # store =>
            /\ response'.endpoint \in {"start_audit", "generate_quick_report"}
            /\ response'.run_audit # Exception
            /\ response'.status_code = 200
       /\ (response'.endpoint = "start_audit" /\ response'.run_audit = Exception) =>
            (response'.status_code = 500 /\ store' = store)
       /\ (/\ response'.endpoint \in {"get_audit_result", "generate_report"}
           /\ response'.audit_id \notin DOMAIN returned) =>
            (response'.status_code = 404 /\ store' = store)]_vars

\* run_audit raised in start_audit while the table holds an audit, after an
\* unknown id was asked for.
C28_Witness ==
    /\ response.endpoint = "start_audit" /\ response.run_audit = Exception
    /\ response.status_code = 500
    /\ store # {}

-----------------------------------------------------------------------------
(* Claims about the audit of the clean mode (SpecAuditIds)                 *)

====
